---- MODULE Spec2Model ----
(***************************************************************************)
(* A model of bin/sysinfo.py: the SystemInfo object, its executor helpers  *)
(* (safe_read_file, run_command, command_exists), the eleven probes and    *)
(* the run controller run_all_checks.                                      *)
(*                                                                         *)
(* The program is sequential.  pc names the function that runs next; one   *)
(* action models one function of the source, from its first line to its    *)
(* return (or to the exception that leaves it).  Everything outside the    *)
(* process (files, tools on PATH, the shell, the environment, the user's   *)
(* interrupt key) is an input of the action that touches it, drawn with \E *)
(* from the outcomes that source can produce.  The host the model starts   *)
(* from is a Linux desktop on which every source answers; each run may     *)
(* depart from that reference host in at most MaxDeviations sources.       *)
(*                                                                         *)
(* Python values: a dict is a sequence of [k, v] records in insertion      *)
(* order, None is the token None, a str is a string, text produced by a    *)
(* source is a sequence of lines already split the way the parser splits   *)
(* them.  A float rounded to d decimals is the integer of its d-th         *)
(* decimal digit units (15.26 is 1526 with two decimals).                  *)
(***************************************************************************)
EXTENDS Integers, Sequences, FiniteSets, TLC

VARIABLES
    verbose,      \* self.verbose
    brief,        \* self.brief
    output_json,  \* self.output_json
    data,         \* self.data, the report
    pc,           \* the function about to run
    info,         \* the local dict `info` of the running probe
    aux,          \* the other locals of the running probe
    environ,      \* os.environ, as far as the run has read it
    stdout,       \* what print() has written, in order
    calls,        \* every external call made so far, in order
    returned,     \* the probes that have returned, in order
    raised,       \* the exception that left the try block, "" when none
    exit_code,    \* the process's exit status, -1 while it runs
    deviations    \* how many sources have departed from the reference host

vars == <<verbose, brief, output_json, data, pc, info, aux, environ, stdout,
          calls, returned, raised, exit_code, deviations>>

flags == <<verbose, brief, output_json>>

\* How many sources of one run may depart from the reference host.
MaxDeviations == 1

(***************************************************************************)
(* Python dict, insertion ordered.                                         *)
(***************************************************************************)
EmptyDict == <<>>

None == "<None>"

Keys(d) == {d[i].k : i \in DOMAIN d}

Has(d, key) == \E i \in DOMAIN d : d[i].k = key

Get(d, key) == d[CHOOSE i \in DOMAIN d : d[i].k = key].v

\* d[key] = value
Put(d, key, value) ==
    IF Has(d, key)
    THEN [i \in DOMAIN d |-> IF d[i].k = key THEN [k |-> key, v |-> value] ELSE d[i]]
    ELSE Append(d, [k |-> key, v |-> value])

\* d.update(e)
RECURSIVE Update(_, _)
Update(d, e) ==
    IF Len(e) = 0 THEN d ELSE Update(Put(d, Head(e).k, Head(e).v), Tail(e))

\* d.get(key, default)
GetOr(d, key, default) == IF Has(d, key) THEN Get(d, key) ELSE default

Min(S) == CHOOSE x \in S : \A y \in S : x <= y

(***************************************************************************)
(* The sources of one function: `nominal` gives each source's answer on    *)
(* the reference host, `alt` the other answers it can give.  Within is the *)
(* set of answer assignments that depart from nominal in at most k         *)
(* sources.                                                                *)
(***************************************************************************)
RECURSIVE Within(_, _, _)
Within(nominal, alt, k) ==
    IF k <= 0 THEN {nominal}
    ELSE LET less == Within(nominal, alt, k - 1)
         IN  less \cup UNION {{[f EXCEPT ![s] = a] : f \in less, a \in alt[s]} :
                                  s \in DOMAIN nominal}

Cost(o, nominal) == Cardinality({s \in DOMAIN nominal : o[s] # nominal[s]})

Choices(nominal, alt) == Within(nominal, alt, MaxDeviations - deviations)

\* An answer of a source: what happened and, when it answered, the text.
Ok(text) == [cause |-> "ok", out |-> text]

Not(cause) == [cause |-> cause, out |-> <<>>]

\* A blocking call can also be cut by the interrupt key or never come back.
Stuck == {Not("KeyboardInterrupt"), Not("hang")}

\* The same for a source whose text is one string.
Gone(cause) == [cause |-> cause, out |-> ""]

StuckS == {Gone("KeyboardInterrupt"), Gone("hang")}

(***************************************************************************)
(* The executor.  Each operator gives the record of one call: what was     *)
(* asked (op, arg, tools spawned), what the source did (cause) and what    *)
(* the function returned to its caller (ret; unused when the call did not  *)
(* return).                                                                *)
(***************************************************************************)

\* safe_read_file: the stripped content, or None on IOError/OSError/
\* PermissionError.  Nothing else is caught.
safe_read_file(filepath, o) ==
    [op |-> "safe_read_file", arg |-> filepath, tools |-> {}, cause |-> o.cause,
     ret |-> IF o.cause = "ok" THEN o.out ELSE None]

\* open(path).read() written inline in a probe helper: no return value of
\* its own, the helper's except clauses decide.
open(filepath, o) ==
    [op |-> "open", arg |-> filepath, tools |-> {}, cause |-> o.cause, ret |-> o.out]

\* os.path.exists / Path.exists
path_exists(path, o) ==
    [op |-> "exists", arg |-> path, tools |-> {}, cause |-> "ok", ret |-> o.cause = "ok"]

\* command_exists: `which` run without a timeout; True when it exits 0, False
\* on CalledProcessError ("fail") or FileNotFoundError ("missing", no `which`).
command_exists(command, o) ==
    [op |-> "command_exists", arg |-> command, tools |-> {"which"}, cause |-> o.cause,
     ret |-> o.cause = "ok"]

\* A command line as the program writes it: its text, the executables it
\* names, the first one the shell looks up, the filter that ends its
\* pipeline ("none", "grep", "head", "wc") and whether the first stage's
\* stderr goes to /dev/null.  isstr: a str (True) or an argument list.
Sh(text, first, tools, tail, quiet) ==
    [text |-> text, first |-> first, tools |-> tools, tail |-> tail, quiet |-> quiet,
     isstr |-> TRUE]

Argv(text, first) ==
    [text |-> text, first |-> first, tools |-> {first}, tail |-> "none", quiet |-> FALSE,
     isstr |-> FALSE]

\* What /bin/sh hands back when the first stage exited with `rc` and `out`
\* are the lines of it that pass the pipeline's greps: the status is the
\* last stage's, and `wc -l` prints their count (a line of digits, kept as
\* the number it spells).
ShellResult(command, out, err, rc) ==
    [stdout |-> IF command.tail = "wc" THEN <<Len(out)>> ELSE out,
     stderr |-> IF command.quiet THEN "" ELSE err,
     returncode |-> CASE command.tail = "none" -> rc
                      [] command.tail = "grep" -> IF Len(out) = 0 THEN 1 ELSE 0
                      [] OTHER -> 0]

\* The triple, had TimeoutExpired been left to the `except Exception` clause.
TimedOutAsException ==
    [stdout |-> <<>>, stderr |-> "Command timed out after 30 seconds", returncode |-> 1]

TimedOut == [stdout |-> <<>>, stderr |-> "Command timed out", returncode |-> 1]

\* str(e) of the FileNotFoundError that exec raises
NoSuchFile(name) ==
    [stdout |-> <<>>, stderr |-> "[Errno 2] No such file or directory: '" \o name \o "'",
     returncode |-> 1]

\* run_command's return value.  Causes: "ok" the first stage printed o.out
\* and exited 0; "fail" it exited nonzero; "missing" its executable does
\* not exist; "hang" it never ends, so subprocess raises TimeoutExpired
\* after 30 s.  Without a shell the command is executed as one file: the
\* whole text when it is a str, the first argument when it is a list.
run_command_ret(command, shell, o) ==
    IF command.isstr /\ shell
    THEN CASE o.cause = "hang" -> TimedOut
           [] o.cause = "ok" -> ShellResult(command, o.out, "", 0)
           [] o.cause = "fail" -> ShellResult(command, <<>>, command.first \o ": error", 1)
           [] OTHER -> ShellResult(command, <<>>,
                                   "/bin/sh: 1: " \o command.first \o ": not found", 127)
    ELSE IF command.isstr /\ command.text # command.first THEN NoSuchFile(command.text)
    ELSE CASE o.cause = "hang" -> TimedOut
           [] o.cause = "ok" -> [stdout |-> o.out, stderr |-> "", returncode |-> 0]
           [] o.cause = "fail" ->
                [stdout |-> <<>>, stderr |-> command.first \o ": error", returncode |-> 1]
           [] OTHER -> NoSuchFile(command.first)

\* except Exception does not catch KeyboardInterrupt: the call then returns
\* nothing and the interrupt leaves run_command.
run_command(command, shell, o) ==
    [op |-> "run_command", arg |-> command.text, tools |-> command.tools,
     cause |-> o.cause, isstr |-> command.isstr, shell |-> command.isstr /\ shell,
     first |-> command.first, quiet |-> command.quiet, tail |-> command.tail,
     ret |-> run_command_ret(command, shell, o)]

(***************************************************************************)
(* Console helpers.  A printed line is a record of its kind and its text   *)
(* without the colour codes.                                               *)
(***************************************************************************)
UpperCase == "ABCDEFGHIJKLMNOPQRSTUVWXYZ"

LowerCase == "abcdefghijklmnopqrstuvwxyz"

\* str.lower()
RECURSIVE lower(_)
lower(text) ==
    IF Len(text) = 0 THEN ""
    ELSE LET c == SubSeq(text, 1, 1)
             at == {i \in 1..Len(UpperCase) : SubSeq(UpperCase, i, i) = c}
         IN  (IF at = {} THEN c ELSE SubSeq(LowerCase, Min(at), Min(at)))
             \o lower(SubSeq(text, 2, Len(text)))

Digits == "0123456789"

\* str(n) of an int n >= 0
RECURSIVE ToText(_)
ToText(n) ==
    IF n < 10 THEN SubSeq(Digits, n + 1, n + 1)
    ELSE ToText(n \div 10) \o SubSeq(Digits, (n % 10) + 1, (n % 10) + 1)

\* str.isdigit()
isdigit(text) ==
    /\ Len(text) > 0
    /\ \A i \in 1..Len(text) : \E j \in 1..Len(Digits) : SubSeq(text, i, i) = SubSeq(Digits, j, j)

\* int(text) of a text of digits
RECURSIVE ToInt(_)
ToInt(text) ==
    IF Len(text) = 0 THEN 0
    ELSE ToInt(SubSeq(text, 1, Len(text) - 1)) * 10
         + (CHOOSE j \in 1..Len(Digits) :
               SubSeq(Digits, j, j) = SubSeq(text, Len(text), Len(text))) - 1

\* Whether int(text) succeeds, and its value: digits after an optional sign.
IsInt(text) ==
    \/ isdigit(text)
    \/ /\ Len(text) > 1
       /\ SubSeq(text, 1, 1) \in {"+", "-"}
       /\ isdigit(SubSeq(text, 2, Len(text)))

int(text) ==
    IF isdigit(text) THEN ToInt(text)
    ELSE IF SubSeq(text, 1, 1) = "-" THEN 0 - ToInt(SubSeq(text, 2, Len(text)))
    ELSE ToInt(SubSeq(text, 2, Len(text)))

\* The place of a one-character text in an alphabet, 0 when it has none.
Place(char, alphabet) ==
    LET at == {i \in 1..Len(alphabet) : SubSeq(alphabet, i, i) = char}
    IN  IF at = {} THEN 0 ELSE Min(at)

\* key.replace('_', ' ').title(): a letter is upper case when no letter is
\* right before it, lower case otherwise.
RECURSIVE str_title(_, _)
str_title(text, after_letter) ==
    IF Len(text) = 0 THEN ""
    ELSE LET c == SubSeq(text, 1, 1)
             n == IF Place(c, UpperCase) > 0 THEN Place(c, UpperCase)
                  ELSE Place(c, LowerCase)
             rest == SubSeq(text, 2, Len(text))
         IN  IF c = "_" THEN " " \o str_title(rest, FALSE)
             ELSE IF n = 0 THEN c \o str_title(rest, FALSE)
             ELSE (IF after_letter THEN SubSeq(LowerCase, n, n) ELSE SubSeq(UpperCase, n, n))
                  \o str_title(rest, TRUE)

Label(key) == str_title(key, FALSE)

\* print_section without its check of the output mode.
print_section_always(title) == <<[kind |-> "section", text |-> title]>>

print_section(title) ==
    IF ~output_json THEN <<[kind |-> "section", text |-> title]>> ELSE <<>>

\* print_info without its check of the output mode.
print_info_always(label, value) ==
    <<[kind |-> "info", label |-> label, value |-> value]>>

print_info(label, value) ==
    IF ~output_json THEN <<[kind |-> "info", label |-> label, value |-> value]>> ELSE <<>>

RECURSIVE Repeat(_, _)
Repeat(char, n) == IF n <= 0 THEN "" ELSE char \o Repeat(char, n - 1)

\* f"{text:<{width}}"
Padded(text, width) == text \o Repeat(" ", width - Len(text))

Max(S) == CHOOSE x \in S : \A y \in S : y <= x

\* The width, had it not been capped.
col_width_uncapped(headers, rows, i) ==
    Max({Len(headers[i])} \cup
        {Len(rows[r][i]) : r \in {q \in DOMAIN rows : i <= Len(rows[q])}}) + 2

\* min(max(len(header), len(cell) of the column) + 2, 30)
col_width(headers, rows, i) ==
    LET max_width == Max({Len(headers[i])} \cup
                         {Len(rows[r][i]) : r \in {q \in DOMAIN rows : i <= Len(rows[q])}})
    IN  IF max_width + 2 < 30 THEN max_width + 2 ELSE 30

\* One table line: the cells zipped with the widths, each cut to
\* width - 5 characters plus "..." when longer than width - 2, then padded.
RECURSIVE table_line(_, _, _, _)
table_line(cells, widths, i, cut) ==
    IF i > Len(cells) \/ i > Len(widths) THEN ""
    ELSE LET cell_str == IF cut /\ Len(cells[i]) > widths[i] - 2
                         THEN SubSeq(cells[i], 1, widths[i] - 5) \o "..."
                         ELSE cells[i]
         IN  Padded(cell_str, widths[i]) \o table_line(cells, widths, i + 1, cut)

\* print_table: the lines it prints (cells are the str() of the values).  A
\* row line also keeps the cells it was formatted from.
print_table(headers, rows, title) ==
    LET col_widths == [i \in DOMAIN headers |-> col_width(headers, rows, i)]
    IN  IF output_json THEN <<>>
        ELSE (IF title # "" THEN <<[kind |-> "title", text |-> title \o ":"]>> ELSE <<>>)
             \o (IF Len(rows) = 0
                 THEN <<[kind |-> "row", text |-> "  No data available", cells |-> <<>>]>>
                 ELSE <<[kind |-> "header",
                         text |-> "  " \o table_line(headers, col_widths, 1, FALSE)],
                        [kind |-> "separator",
                         text |-> "  " \o table_line([i \in DOMAIN headers |->
                                                         Repeat("-", col_widths[i])],
                                                     col_widths, 1, FALSE)]>>
                      \o [r \in DOMAIN rows |->
                             [kind |-> "row", cells |-> rows[r],
                              text |-> "  " \o table_line(rows[r], col_widths, 1, TRUE)]])

\* for key, value in info.items(): self.print_info(label, value)
RECURSIVE print_items(_)
print_items(d) ==
    IF Len(d) = 0 THEN <<>>
    ELSE print_info(Label(Head(d).k), Head(d).v) \o print_items(Tail(d))

(***************************************************************************)
(* The run controller's order of probes, and the key each stores under.    *)
(***************************************************************************)
\* The order, had get_cpu_info been called before get_hardware_info.
ProbeOrderSwapped ==
    <<"get_system_info", "get_cpu_info", "get_hardware_info", "get_memory_info",
      "get_graphics_info", "get_audio_info", "get_network_info", "get_storage_info",
      "get_usb_info", "get_power_info", "get_temperature_info">>

ProbeOrder ==
    <<"get_system_info", "get_hardware_info", "get_cpu_info", "get_memory_info",
      "get_graphics_info", "get_audio_info", "get_network_info", "get_storage_info",
      "get_usb_info", "get_power_info", "get_temperature_info">>

NextProbe(probe) ==
    LET i == CHOOSE j \in DOMAIN ProbeOrder : ProbeOrder[j] = probe
    IN  IF i < Len(ProbeOrder) THEN ProbeOrder[i + 1] ELSE "generate_output"

\* The assignment, had it been made only for a dict with fields.
StoreIfAny(section, section_info) ==
    IF Len(section_info) > 0 THEN Put(data, section, section_info) ELSE data

\* The assignment, had it been left out when the report goes to JSON.
StoreWhenShown(section, section_info) ==
    IF output_json THEN data ELSE Put(data, section, section_info)

\* self.data[section] = info
Store(section, section_info) == Put(data, section, section_info)

(***************************************************************************)
(* How a function that made the calls `made`, in this order, ends: the     *)
(* first call that does not return ends it (an interrupt leaves through    *)
(* every handler that does not catch it; bare is TRUE inside a bare        *)
(* `except:`); otherwise `error` names the exception its own code raises   *)
(* past its except clauses ("" when none); otherwise it goes on as         *)
(* `normal` says.                                                          *)
(***************************************************************************)
\* Leaves, had run_command's `except Exception` caught the interrupt too.
LeavesUnlessExecutor(call, bare) ==
    \/ call.cause = "KeyboardInterrupt" /\ ~bare /\ call.op # "run_command"
    \/ call.cause = "hang" /\ call.op # "run_command"

Leaves(call, bare) ==
    \/ call.cause = "KeyboardInterrupt" /\ ~bare
    \/ call.cause = "hang" /\ call.op # "run_command"

Effect(made, bare, cost, error, normal) ==
    LET left == {i \in DOMAIN made : Leaves(made[i], bare)}
        n == IF left = {} THEN Len(made) ELSE Min(left)
    IN  /\ calls' = calls \o SubSeq(made, 1, n)
        /\ deviations' = deviations + cost
        /\ IF left # {}
           THEN /\ pc' = IF made[n].cause = "hang" THEN "blocked"
                         ELSE "except_KeyboardInterrupt"
                /\ raised' = IF made[n].cause = "hang" THEN raised ELSE "KeyboardInterrupt"
                /\ UNCHANGED <<flags, data, info, aux, environ, stdout, returned, exit_code>>
           ELSE IF error # ""
           THEN /\ pc' = "except_Exception"
                /\ raised' = error
                /\ UNCHANGED <<flags, data, info, aux, environ, stdout, returned, exit_code>>
           ELSE normal

\* The function goes on to `next` with its dict now `d`.
Goto(next, d) ==
    /\ pc' = next
    /\ info' = d
    /\ UNCHANGED <<flags, data, aux, environ, stdout, returned, raised, exit_code>>

\* The same for a helper whose result the probe keeps beside its dict.
GotoAux(next, a) ==
    /\ pc' = next
    /\ aux' = a
    /\ UNCHANGED <<flags, data, info, environ, stdout, returned, raised, exit_code>>

\* The probe's last lines: store the section, display, return to
\* run_all_checks, which calls the next probe.
Return(probe, section, section_info, lines) ==
    /\ data' = Store(section, section_info)
    /\ stdout' = stdout \o lines
    /\ returned' = Append(returned, probe)
    /\ pc' = NextProbe(probe)
    /\ info' = EmptyDict
    /\ aux' = EmptyDict
    /\ UNCHANGED <<flags, environ, raised, exit_code>>

Init ==
    /\ verbose \in BOOLEAN
    /\ brief \in BOOLEAN
    /\ output_json \in BOOLEAN
    /\ data = EmptyDict
    /\ pc = "run_all_checks"
    /\ info = EmptyDict
    /\ aux = EmptyDict
    /\ environ = EmptyDict
    /\ stdout = <<>>
    /\ calls = <<>>
    /\ returned = <<>>
    /\ raised = ""
    /\ exit_code = -1
    /\ deviations = 0

(***************************************************************************)
(* run_all_checks: the banner, then the probes in ProbeOrder, then         *)
(* generate_output; the two except clauses.                                *)
(***************************************************************************)
run_all_checks ==
    /\ pc = "run_all_checks"
    /\ stdout' = stdout \o
                 (IF ~output_json
                  THEN <<[kind |-> "banner", text |-> "top"],
                         [kind |-> "banner", text |-> "Comprehensive System Information v5.0"],
                         [kind |-> "banner", text |-> "bottom"],
                         [kind |-> "banner", text |-> "Generated: %Y-%m-%d %H:%M:%S %Z"]>>
                  ELSE <<>>)
    /\ pc' = ProbeOrder[1]
    /\ UNCHANGED <<flags, data, info, aux, environ, calls, returned, raised, exit_code,
                   deviations>>

\* How far the clock of one run can be read to advance.
MaxClock == 3

\* The readings of the clock: microseconds past 2026-01-01T00:00:00.
Clock == 1..MaxClock

\* datetime.isoformat() of a reading
isoformat(now) == "2026-01-01T00:00:00.00000" \o ToText(now)

\* The document, had it carried one schema_version tag after the timestamp.
generate_json_output_tagged(now) ==
    <<[kind |-> "json",
       doc |-> <<[k |-> "system_info", v |-> data],
                 [k |-> "generated_at", v |-> isoformat(now)],
                 [k |-> "schema_version", v |-> "5.0"]>>]>>

\* The document, had the report been stamped with the time of its
\* rendering.
generate_json_output_stamped(now) ==
    <<[kind |-> "json",
       doc |-> <<[k |-> "system_info", v |-> Put(data, "generated_at", isoformat(now))],
                 [k |-> "generated_at", v |-> isoformat(now)],
                 [k |-> "script_version", v |-> "5.0"],
                 [k |-> "script_language", v |-> "Python"]>>]>>

\* generate_json_output when datetime.now() reads `now`.
generate_json_output(now) ==
    <<[kind |-> "json",
       doc |-> <<[k |-> "system_info", v |-> data],
                 [k |-> "generated_at", v |-> isoformat(now)],
                 [k |-> "script_version", v |-> "5.0"],
                 [k |-> "script_language", v |-> "Python"]>>]>>

generate_console_footer ==
    <<[kind |-> "footer", text |-> "System information scan completed."],
      [kind |-> "footer", text |-> "Script: Python System Information v5.0"]>>

\* generate_output, then run_all_checks and main return: exit status 0.
generate_output ==
    /\ pc = "generate_output"
    /\ \E now \in Clock :
          stdout' = stdout \o (IF output_json THEN generate_json_output(now)
                               ELSE generate_console_footer)
    /\ pc' = "exit"
    /\ exit_code' = 0
    /\ UNCHANGED <<flags, data, info, aux, environ, calls, returned, raised, deviations>>

except_KeyboardInterrupt ==
    /\ pc = "except_KeyboardInterrupt"
    /\ stdout' = Append(stdout, [kind |-> "interrupted", text |-> "Script interrupted by user."])
    /\ pc' = "exit"
    /\ exit_code' = 1
    /\ UNCHANGED <<flags, data, info, aux, environ, calls, returned, raised, deviations>>

except_Exception ==
    /\ pc = "except_Exception"
    /\ stdout' = Append(stdout, [kind |-> "error", text |-> "An error occurred: " \o raised])
    /\ pc' = "exit"
    /\ exit_code' = 1
    /\ UNCHANGED <<flags, data, info, aux, environ, calls, returned, raised, deviations>>

\* The user presses the interrupt key while the interpreter is between two
\* calls of the try block (or while a call that never returns is blocked):
\* KeyboardInterrupt is raised there, outside every helper's try.
Running == pc \notin {"exit", "except_KeyboardInterrupt", "except_Exception"}

UserInterrupt ==
    /\ Running
    /\ deviations < MaxDeviations
    /\ deviations' = deviations + 1
    /\ calls' = Append(calls, [op |-> "SIGINT", arg |-> pc, tools |-> {},
                               cause |-> "KeyboardInterrupt", ret |-> None])
    /\ pc' = "except_KeyboardInterrupt"
    /\ raised' = "KeyboardInterrupt"
    /\ UNCHANGED <<flags, data, info, aux, environ, stdout, returned, exit_code>>

(***************************************************************************)
(* Probe 1: get_system_info.                                               *)
(***************************************************************************)
get_system_info ==
    /\ pc = "get_system_info"
    /\ stdout' = stdout \o print_section("SYSTEM INFORMATION")
    /\ pc' = "get_boot_time"
    /\ info' = <<[k |-> "hostname", v |-> "socket.gethostname()"],
                 [k |-> "username", v |-> "os.getenv('USER')"],
                 [k |-> "architecture", v |-> "platform.machine()"],
                 [k |-> "platform", v |-> "platform.platform()"],
                 [k |-> "system", v |-> "Linux"],
                 [k |-> "release", v |-> "platform.release()"]>>
    /\ UNCHANGED <<flags, data, aux, environ, calls, returned, raised, exit_code,
                   deviations>>

\* /proc/uptime, split on whitespace.
uptime_nominal == [uptime |-> Ok(<<"350735.47", "2711621.80">>)]

uptime_alt == [uptime |-> {Not("IOError"), Ok(<<>>), Ok(<<"up">>)} \cup Stuck]

\* The texts float() accepts.
FloatTexts == {"350735.47", "2711621.80"}

\* get_boot_time's return value.  Its bare `except:` catches whatever the
\* read or the conversion raises, KeyboardInterrupt included.
boot_time(o) ==
    IF o.uptime.cause = "ok" /\ Len(o.uptime.out) > 0 /\ o.uptime.out[1] \in FloatTexts
    THEN "%Y-%m-%d %H:%M:%S"
    ELSE "Unknown"

get_boot_time ==
    /\ pc = "get_boot_time"
    /\ \E o \in Choices(uptime_nominal, uptime_alt) :
         Effect(<<open("/proc/uptime", o.uptime)>>, TRUE, Cost(o, uptime_nominal), "",
                Goto("get_linux_distro_info",
                     Update(info, <<[k |-> "boot_time", v |-> boot_time(o)],
                                    [k |-> "current_time", v |-> "%Y-%m-%d %H:%M:%S %Z"],
                                    [k |-> "timezone", v |-> "time.tzname[0]"]>>)))

\* /etc/os-release: a line with '=' is <<key, value>>, any other <<text>>.
os_release_nominal ==
    [os_release |-> Ok(<< <<"NAME", "Arch Linux">>, <<"PRETTY_NAME", "Arch Linux">>,
                          <<"ID", "arch">>, <<"VERSION_ID", "20260101">>, <<"">> >>)]

os_release_alt == [os_release |-> {Not("IOError"), Ok(<<>>)} \cup Stuck]

RECURSIVE os_release_fields(_, _)
os_release_fields(lines, d) ==
    IF Len(lines) = 0 THEN d
    ELSE LET line == Head(lines)
             key == line[1]
         IN  os_release_fields(Tail(lines),
                 IF Len(line) < 2 THEN d
                 ELSE IF key = "PRETTY_NAME" THEN Put(d, "distribution", line[2])
                 ELSE IF key = "VERSION_ID" THEN Put(d, "version_id", line[2])
                 ELSE IF key = "ID" THEN Put(d, "distro_id", line[2])
                 ELSE d)

linux_distro_info(o) ==
    IF o.os_release.cause = "IOError"
    THEN <<[k |-> "distribution", v |-> "Unknown Linux"]>>
    ELSE os_release_fields(o.os_release.out, EmptyDict)

get_linux_distro_info ==
    /\ pc = "get_linux_distro_info"
    /\ \E o \in Choices(os_release_nominal, os_release_alt) :
         Effect(<<open("/etc/os-release", o.os_release)>>, FALSE,
                Cost(o, os_release_nominal), "",
                Goto("get_boot_mode", Update(info, linux_distro_info(o))))

efi_nominal == [efi |-> Ok(<<>>)]

efi_alt == [efi |-> {Not("absent")}]

boot_mode(o) == IF path_exists("/sys/firmware/efi", o.efi).ret THEN "UEFI" ELSE "BIOS"

get_boot_mode ==
    /\ pc = "get_boot_mode"
    /\ \E o \in Choices(efi_nominal, efi_alt) :
         Effect(<<path_exists("/sys/firmware/efi", o.efi)>>, FALSE, Cost(o, efi_nominal), "",
                Goto("store_system", Put(info, "boot_mode", boot_mode(o))))

store_system ==
    /\ pc = "store_system"
    /\ Return("get_system_info", "system", info, print_items(info))
    /\ UNCHANGED <<calls, deviations>>

(***************************************************************************)
(* Probe 2: get_hardware_info.                                             *)
(***************************************************************************)
get_hardware_info ==
    /\ pc = "get_hardware_info"
    /\ stdout' = stdout \o print_section("HARDWARE INFORMATION")
    /\ pc' = "get_dmi_info"
    /\ info' = EmptyDict
    /\ UNCHANGED <<flags, data, aux, environ, calls, returned, raised, exit_code,
                   deviations>>

dmi_files ==
    <<[k |-> "manufacturer", v |-> "/sys/class/dmi/id/sys_vendor"],
      [k |-> "product_name", v |-> "/sys/class/dmi/id/product_name"],
      [k |-> "product_version", v |-> "/sys/class/dmi/id/product_version"],
      [k |-> "serial_number", v |-> "/sys/class/dmi/id/product_serial"],
      [k |-> "bios_vendor", v |-> "/sys/class/dmi/id/bios_vendor"],
      [k |-> "bios_version", v |-> "/sys/class/dmi/id/bios_version"],
      [k |-> "bios_date", v |-> "/sys/class/dmi/id/bios_date"],
      [k |-> "board_name", v |-> "/sys/class/dmi/id/board_name"],
      [k |-> "board_vendor", v |-> "/sys/class/dmi/id/board_vendor"]>>

dmi_nominal == [key \in Keys(dmi_files) |-> Ok("text of " \o Get(dmi_files, key))]

dmi_alt ==
    [key \in Keys(dmi_files) |->
        {Gone("IOError"), Ok("To be filled by O.E.M."), Ok("Not Specified"), Ok("")}
        \cup StuckS]

dmi_reads(o) == [i \in DOMAIN dmi_files |-> safe_read_file(dmi_files[i].v, o[dmi_files[i].k])]

\* `if value` of a str or None
Truthy(value) == value # None /\ value # ""

\* The dict, had a field without a usable value been left out.
dmi_info_omitting(o) ==
    SelectSeq([i \in DOMAIN dmi_files |->
                  [k |-> dmi_files[i].k, v |-> dmi_reads(o)[i].ret]],
              LAMBDA e : Truthy(e.v) /\ e.v \notin {"To be filled by O.E.M.", "Not Specified"})

dmi_info(o) ==
    [i \in DOMAIN dmi_files |->
        LET value == dmi_reads(o)[i].ret
        IN  [k |-> dmi_files[i].k,
             v |-> IF Truthy(value)
                      /\ value \notin {"To be filled by O.E.M.", "Not Specified", ""}
                   THEN value ELSE "Unknown"]]

get_dmi_info ==
    /\ pc = "get_dmi_info"
    /\ \E o \in Choices(dmi_nominal, dmi_alt) :
         Effect(dmi_reads(o), FALSE, Cost(o, dmi_nominal), "",
                Goto("get_chassis_info",
                     IF Len(dmi_info(o)) > 0 THEN Update(info, dmi_info(o)) ELSE info))

chassis_type_map ==
    <<"Other", "Unknown", "Desktop", "Low Profile Desktop", "Pizza Box", "Mini Tower",
      "Tower", "Portable", "Laptop", "Notebook", "Hand Held", "Docking Station",
      "All In One", "Sub Notebook", "Space-saving", "Lunch Box", "Main Server Chassis",
      "Expansion Chassis", "Sub Chassis", "Bus Expansion Chassis", "Peripheral Chassis",
      "RAID Chassis", "Rack Mount Chassis", "Sealed-case PC">>

\* The keys of the map are the decimal texts '1'..'24': the places whose
\* key is the code read.
chassis_keys(chassis_code) == {n \in DOMAIN chassis_type_map : ToText(n) = chassis_code}

chassis_nominal == [chassis |-> Ok("3")]

chassis_alt == [chassis |-> {Gone("IOError"), Ok("9"), Ok("2"), Ok("35")} \cup StuckS]

chassis_info(o) ==
    LET chassis_code == safe_read_file("/sys/class/dmi/id/chassis_type", o.chassis).ret
    IN  <<[k |-> "chassis_type",
           v |-> IF Truthy(chassis_code) /\ chassis_keys(chassis_code) # {}
                 THEN chassis_type_map[Min(chassis_keys(chassis_code))]
                 ELSE "Unknown"]>>

get_chassis_info ==
    /\ pc = "get_chassis_info"
    /\ \E o \in Choices(chassis_nominal, chassis_alt) :
         Effect(<<safe_read_file("/sys/class/dmi/id/chassis_type", o.chassis)>>, FALSE,
                Cost(o, chassis_nominal), "",
                Goto("store_hardware", Update(info, chassis_info(o))))

store_hardware ==
    /\ pc = "store_hardware"
    /\ Return("get_hardware_info", "hardware", info, print_items(info))
    /\ UNCHANGED <<calls, deviations>>

(***************************************************************************)
(* Probe 3: get_cpu_info.                                                  *)
(***************************************************************************)
get_cpu_info ==
    /\ pc = "get_cpu_info"
    /\ stdout' = stdout \o print_section("CPU INFORMATION")
    /\ pc' = "get_linux_cpu_info"
    /\ info' = <<[k |-> "architecture", v |-> "platform.machine()"],
                 [k |-> "processor", v |-> "platform.processor()"]>>
    /\ UNCHANGED <<flags, data, aux, environ, calls, returned, raised, exit_code,
                   deviations>>

\* sep.join(words)
RECURSIVE Join(_, _)
Join(words, sep) ==
    IF Len(words) = 0 THEN ""
    ELSE IF Len(words) = 1 THEN words[1]
    ELSE words[1] \o sep \o Join(Tail(words), sep)

\* /proc/cpuinfo: a line with ':' is <<key, value>>, both stripped; the
\* value of the flags line is its list of words.
cpuinfo_nominal ==
    [cpuinfo |-> Ok(<< <<"processor", "0">>, <<"vendor_id", "GenuineIntel">>,
                       <<"cpu family", "6">>, <<"model", "142">>,
                       <<"model name", "Intel(R) Core(TM) i5">>, <<"stepping", "12">>,
                       <<"cache size", "6144 KB">>,
                       <<"flags", <<"fpu", "vme", "de", "pse", "tsc", "msr", "pae", "mce",
                                    "cx8", "apic", "sep", "mtrr">> >>,
                       <<"">>,
                       <<"processor", "1">>, <<"vendor_id", "GenuineIntel">>,
                       <<"model name", "Intel(R) Core(TM) i5">>, <<"">> >>)]

cpuinfo_alt == [cpuinfo |-> {Not("IOError"), Ok(<<>>)} \cup Stuck]

cpuinfo_keys ==
    <<[k |-> "model name", v |-> "model_name"], [k |-> "vendor_id", v |-> "vendor"],
      [k |-> "cpu family", v |-> "family"], [k |-> "model", v |-> "model_id"],
      [k |-> "stepping", v |-> "stepping"], [k |-> "cache size", v |-> "cache_size"]>>

RECURSIVE cpuinfo_fields(_, _)
cpuinfo_fields(lines, d) ==
    IF Len(lines) = 0 THEN d
    ELSE LET line == Head(lines)
             key == line[1]
         IN  cpuinfo_fields(Tail(lines),
                 IF Len(line) < 2 THEN d
                 ELSE IF Has(cpuinfo_keys, key) /\ ~Has(d, Get(cpuinfo_keys, key))
                 THEN Put(d, Get(cpuinfo_keys, key), line[2])
                 ELSE IF key = "flags" /\ ~Has(d, "features")
                 THEN Put(d, "features",
                          Join(SubSeq(line[2], 1, IF Len(line[2]) < 10 THEN Len(line[2]) ELSE 10),
                               " ") \o "...")
                 ELSE d)

linux_cpu_info(o) ==
    IF o.cpuinfo.cause = "IOError" THEN EmptyDict
    ELSE LET d == cpuinfo_fields(o.cpuinfo.out, EmptyDict)
             logical_cores ==
                 Cardinality({i \in DOMAIN o.cpuinfo.out : o.cpuinfo.out[i][1] = "processor"})
         IN  IF logical_cores > 0 THEN Put(d, "logical_cores", logical_cores) ELSE d

get_linux_cpu_info ==
    /\ pc = "get_linux_cpu_info"
    /\ \E o \in Choices(cpuinfo_nominal, cpuinfo_alt) :
         Effect(<<open("/proc/cpuinfo", o.cpuinfo)>>, FALSE, Cost(o, cpuinfo_nominal), "",
                Goto("get_cpu_frequency",
                     Put(Update(info, linux_cpu_info(o)), "physical_cores", "os.cpu_count()")))

\* The cpufreq files of cpu0, each one line.
cpufreq_files ==
    <<[k |-> "cur", v |-> "/sys/devices/system/cpu/cpu0/cpufreq/scaling_cur_freq"],
      [k |-> "max", v |-> "/sys/devices/system/cpu/cpu0/cpufreq/scaling_max_freq"],
      [k |-> "gov", v |-> "/sys/devices/system/cpu/cpu0/cpufreq/scaling_governor"]>>

cpufreq_nominal == [cur |-> Ok("2400000"), max |-> Ok("3600999"), gov |-> Ok("powersave")]

cpufreq_alt ==
    [s \in {"cur", "max", "gov"} |->
        {Gone("absent"), Gone("IOError"), Ok("<unknown>")} \cup StuckS]

\* One of the three blocks: os.path.exists, then open and read.
cpufreq_calls(site, o) ==
    IF o[site].cause = "absent"
    THEN <<path_exists(Get(cpufreq_files, site), o[site])>>
    ELSE <<path_exists(Get(cpufreq_files, site), Ok("")),
           open(Get(cpufreq_files, site), o[site])>>

cpu_frequency(o) ==
    LET d1 == IF o.cur.cause = "ok" /\ IsInt(o.cur.out)
              THEN Put(EmptyDict, "current_frequency_mhz", int(o.cur.out) \div 1000)
              ELSE EmptyDict
        d2 == IF o.max.cause = "ok" /\ IsInt(o.max.out)
              THEN Put(d1, "max_frequency_mhz", int(o.max.out) \div 1000)
              ELSE d1
    IN  IF o.gov.cause = "ok" THEN Put(d2, "governor", o.gov.out) ELSE d2

get_cpu_frequency ==
    /\ pc = "get_cpu_frequency"
    /\ \E o \in Choices(cpufreq_nominal, cpufreq_alt) :
         Effect(cpufreq_calls("cur", o) \o cpufreq_calls("max", o) \o cpufreq_calls("gov", o),
                FALSE, Cost(o, cpufreq_nominal), "",
                Goto("get_cpu_usage",
                     IF Len(cpu_frequency(o)) > 0 THEN Update(info, cpu_frequency(o)) ELSE info))

\* /proc/loadavg, split on whitespace.
loadavg_nominal == [loadavg |-> Ok(<<"0.52", "0.58", "0.59", "1/467", "12345">>)]

loadavg_alt == [loadavg |-> {Not("IOError"), Ok(<<"0.52", "0.58">>), Ok(<<>>)} \cup Stuck]

\* get_cpu_usage's return value; only IOError is caught, so load_avg[2] on a
\* shorter list raises IndexError out of the probe.
cpu_usage_raises(o) ==
    IF o.loadavg.cause = "ok" /\ Len(o.loadavg.out) < 3 THEN "IndexError" ELSE ""

cpu_usage(o) ==
    IF o.loadavg.cause = "IOError" THEN None
    ELSE o.loadavg.out[1] \o " (1min), " \o o.loadavg.out[2] \o " (5min), "
         \o o.loadavg.out[3] \o " (15min)"

get_cpu_usage ==
    /\ pc = "get_cpu_usage"
    /\ \E o \in Choices(loadavg_nominal, loadavg_alt) :
         Effect(<<open("/proc/loadavg", o.loadavg)>>, FALSE, Cost(o, loadavg_nominal),
                cpu_usage_raises(o),
                Goto("store_cpu",
                     IF Truthy(cpu_usage(o)) THEN Put(info, "load_average", cpu_usage(o))
                     ELSE info))

store_cpu ==
    /\ pc = "store_cpu"
    /\ Return("get_cpu_info", "cpu", info, print_items(info))
    /\ UNCHANGED <<calls, deviations>>

(***************************************************************************)
(* Probe 4: get_memory_info.                                               *)
(***************************************************************************)
\* A float rounded to `decimals` places, as the integer `units` of its last
\* place: 15.26 is Float(1526, 2).
Float(units, decimals) == [units |-> units, decimals |-> decimals]

\* <<floor(n * 10^digits / d), remainder>> for n >= 0, d > 0, by long
\* division, so that no intermediate exceeds 10 * d.
RECURSIVE Scaled(_, _, _)
Scaled(n, d, digits) ==
    IF digits = 0 THEN <<n \div d, n % d>>
    ELSE LET p == Scaled(n, d, digits - 1)
         IN  <<p[1] * 10 + (p[2] * 10) \div d, (p[2] * 10) % d>>

\* round(n / d, digits) in units of the last place, ties to even.
RoundRatio(n, d, digits) ==
    LET m == IF n < 0 THEN 0 - n ELSE n
        p == Scaled(m, d, digits)
        q == IF 2 * p[2] < d THEN p[1]
             ELSE IF 2 * p[2] > d THEN p[1] + 1
             ELSE IF p[1] % 2 = 0 THEN p[1] ELSE p[1] + 1
    IN  IF n < 0 THEN 0 - q ELSE q

\* round(n / d * 100, digits - 2) as the code computes it in binary floating
\* point: where n / d * 10^digits falls exactly halfway between two integers
\* the quotient and the product are inexact and the result is either
\* neighbour, as the operands have it (51 of 80 gives 63.7, 1 of 2000 gives
\* 0.1); up selects the one away from zero.  Elsewhere it is the nearest.
RoundProduct(n, d, digits, up) ==
    LET m == IF n < 0 THEN 0 - n ELSE n
        p == Scaled(m, d, digits)
        q == IF 2 * p[2] < d THEN p[1]
             ELSE IF 2 * p[2] > d THEN p[1] + 1
             ELSE IF up THEN p[1] + 1 ELSE p[1]
    IN  IF n < 0 THEN 0 - q ELSE q

\* kb_to_gb with the quotient cut off after two decimals instead of rounded.
kb_to_gb_truncated(kb_val) == Float(Scaled(kb_val, 1048576, 2)[1], 2)

\* kb_to_gb of an int: round(kb / 1024**2, 2)
kb_to_gb(kb_val) == Float(RoundRatio(kb_val, 1048576, 2), 2)

get_memory_info ==
    /\ pc = "get_memory_info"
    /\ stdout' = stdout \o print_section("MEMORY INFORMATION")
    /\ pc' = "get_linux_memory_info"
    /\ info' = EmptyDict
    /\ UNCHANGED <<flags, data, aux, environ, calls, returned, raised, exit_code,
                   deviations>>

\* /proc/meminfo: a line with ':' is <<key, n>>, n the first run of digits
\* of its value (-1 when it has none); any other line is <<text>>.
meminfo_nominal ==
    [meminfo |-> Ok(<< <<"MemTotal", 16000000>>, <<"MemFree", 1000000>>,
                       <<"MemAvailable", 8000000>>, <<"SwapTotal", 2097152>>,
                       <<"SwapFree", 1048576>> >>)]

meminfo_alt ==
    [meminfo |-> {Not("IOError"),
                  Ok(<< <<"MemTotal", 0>>, <<"MemAvailable", 0>> >>),
                  Ok(<< <<"MemTotal", 16000000>>, <<"MemFree", 1000000>> >>)}
                 \cup Stuck]

RECURSIVE mem_data(_, _)
mem_data(lines, d) ==
    IF Len(lines) = 0 THEN d
    ELSE mem_data(Tail(lines),
                  IF Len(Head(lines)) = 2 /\ Head(lines)[2] >= 0
                  THEN Put(d, Head(lines)[1], Head(lines)[2]) ELSE d)

\* Only IOError is caught: MemTotal 0 with MemAvailable present divides by zero.
linux_memory_raises(o) ==
    LET m == mem_data(o.meminfo.out, EmptyDict)
    IN  IF o.meminfo.cause = "ok" /\ Has(m, "MemTotal") /\ Has(m, "MemAvailable")
           /\ Get(m, "MemTotal") = 0
        THEN "ZeroDivisionError" ELSE ""

\* <<floor(100 * n / 1024**3), remainder>> for n >= 0, with n split at 1024 so
\* that no intermediate exceeds 100 * 2^21.
Scaled30(n) ==
    LET a == n \div 1073741824
        r == n % 1073741824
        t == 100 * (r \div 1024) + (100 * (r % 1024)) \div 1024
        u == (100 * (r % 1024)) % 1024
    IN  <<100 * a + t \div 1048576, (t % 1048576) * 1024 + u>>

\* bytes_to_gb of an int: round(bytes / 1024**3, 2), ties to even.
bytes_to_gb(bytes_val) ==
    LET m == IF bytes_val < 0 THEN 0 - bytes_val ELSE bytes_val
        p == Scaled30(m)
        q == IF p[2] < 536870912 THEN p[1]
             ELSE IF p[2] > 536870912 THEN p[1] + 1
             ELSE IF p[1] % 2 = 0 THEN p[1] ELSE p[1] + 1
    IN  Float(IF bytes_val < 0 THEN 0 - q ELSE q, 2)

\* The values a caller can hand to a conversion: an int, None, a text, or a
\* float, which is finite (given in tenths), infinite or not a number.
PyInt(n) == [type |-> "int", value |-> n]

PyNone == [type |-> "NoneType"]

PyStr(text) == [type |-> "str", text |-> text]

PyFloat(class, tenths) == [type |-> "float", class |-> class, tenths |-> tenths]

\* What int(x) raises, "" when it returns.
int_raises(x) ==
    CASE x.type = "NoneType" -> "TypeError"
      [] x.type = "str" -> IF IsInt(x.text) THEN "" ELSE "ValueError"
      [] x.type = "float" -> IF x.class = "inf" THEN "OverflowError"
                             ELSE IF x.class = "nan" THEN "ValueError" ELSE ""
      [] OTHER -> ""

\* int(x) where it returns: a float is cut towards zero.
int_of(x) ==
    CASE x.type = "str" -> int(x.text)
      [] x.type = "float" -> IF x.tenths < 0 THEN 0 - ((0 - x.tenths) \div 10)
                             ELSE x.tenths \div 10
      [] OTHER -> x.value

\* except (ValueError, TypeError): return 0.0
caught(error) == error \in {"ValueError", "TypeError"}

\* The halfway cases of usage_percent open to the binary rounding.
usage_ties(o) ==
    LET m == mem_data(o.meminfo.out, EmptyDict)
    IN  IF /\ o.meminfo.cause = "ok"
           /\ Has(m, "MemTotal") /\ Has(m, "MemAvailable")
           /\ Get(m, "MemTotal") > 0
           /\ Get(m, "MemTotal") >= Get(m, "MemAvailable")
           /\ 2 * Scaled(Get(m, "MemTotal") - Get(m, "MemAvailable"),
                         Get(m, "MemTotal"), 3)[2] = Get(m, "MemTotal")
        THEN BOOLEAN ELSE {FALSE}

linux_memory_info(o, up) ==
    LET m == mem_data(o.meminfo.out, EmptyDict)
        d1 == IF Has(m, "MemTotal")
              THEN Put(EmptyDict, "total_ram_gb", kb_to_gb(Get(m, "MemTotal")))
              ELSE EmptyDict
        d2 == IF Has(m, "MemAvailable")
              THEN Put(d1, "available_ram_gb", kb_to_gb(Get(m, "MemAvailable")))
              ELSE d1
        d3 == IF Has(m, "MemTotal") /\ Has(m, "MemAvailable")
              THEN LET used_kb == Get(m, "MemTotal") - Get(m, "MemAvailable")
                   IN  Put(Put(d2, "used_ram_gb", kb_to_gb(used_kb)),
                           "usage_percent",
                           Float(RoundProduct(used_kb, Get(m, "MemTotal"), 3, up), 1))
              ELSE d2
        d4 == IF Has(m, "SwapTotal")
              THEN Put(d3, "total_swap_gb", kb_to_gb(Get(m, "SwapTotal")))
              ELSE d3
    IN  IF o.meminfo.cause = "IOError" THEN EmptyDict
        ELSE IF Has(m, "SwapFree") /\ Has(m, "SwapTotal")
        THEN Put(d4, "used_swap_gb", kb_to_gb(Get(m, "SwapTotal") - Get(m, "SwapFree")))
        ELSE d4

get_linux_memory_info ==
    /\ pc = "get_linux_memory_info"
    /\ \E o \in Choices(meminfo_nominal, meminfo_alt) : \E up \in usage_ties(o) :
         Effect(<<open("/proc/meminfo", o.meminfo)>>, FALSE, Cost(o, meminfo_nominal),
                linux_memory_raises(o),
                Goto("get_memory_hardware_info", Update(info, linux_memory_info(o, up))))

\* What `which` can answer besides exit 0.
WhichAlt == {Not("fail"), Not("missing")} \cup Stuck

\* What a command whose first executable was checked can do besides print.
RunAlt == {Not("fail"), Not("hang"), Not("KeyboardInterrupt")}

\* The calls, had a command that did not succeed been run a second time.
checked_calls_retried(tool, command, which, run) ==
    IF ~command_exists(tool, which).ret THEN <<command_exists(tool, which)>>
    ELSE IF run.cause = "ok"
    THEN <<command_exists(tool, which), run_command(command, TRUE, run)>>
    ELSE <<command_exists(tool, which), run_command(command, TRUE, run),
           run_command(command, TRUE, run)>>

\* The calls, had the command been run whatever command_exists answered.
checked_calls_always(tool, command, which, run) ==
    <<command_exists(tool, which), run_command(command, TRUE, run)>>

\* `if self.command_exists(tool): ... = self.run_command(command)`
checked_calls(tool, command, which, run) ==
    IF command_exists(tool, which).ret
    THEN <<command_exists(tool, which), run_command(command, TRUE, run)>>
    ELSE <<command_exists(tool, which)>>

\* The result, had the guarded block used the command's output whatever
\* command_exists answered.
checked_ret_run(tool, command, which, run) == run_command(command, TRUE, run).ret

\* The result the guarded block works on: that of a command that was not
\* run is taken as a failure with no output.
checked_ret(tool, command, which, run) ==
    IF command_exists(tool, which).ret THEN run_command(command, TRUE, run).ret
    ELSE [stdout |-> <<>>, stderr |-> "", returncode |-> 1]

\* `returncode == 0 and stdout`
Usable(r) == r.returncode = 0 /\ Len(r.stdout) > 0

dmidecode_cmd ==
    Sh("sudo dmidecode -t memory 2>/dev/null", "sudo", {"sudo", "dmidecode"}, "none", TRUE)

\* A line of dmidecode's output: which of the substrings the parser tests
\* it contains, and the stripped text after its first ':'.
dmidecode_nominal ==
    [which |-> Ok(<<>>),
     run |-> Ok(<<[has |-> {"Memory Device"}, value |-> ""],
                  [has |-> {"Type:", "Error"}, value |-> "None"],
                  [has |-> {"Type:"}, value |-> "DDR4"],
                  [has |-> {"Speed:", "Unknown"}, value |-> "Unknown"],
                  [has |-> {"Speed:"}, value |-> "3200 MT/s"],
                  [has |-> {"Memory Device"}, value |-> ""],
                  [has |-> {"Type:"}, value |-> "DDR4"],
                  [has |-> {"Speed:"}, value |-> "2666 MT/s"]>>)]

dmidecode_alt == [which |-> WhichAlt, run |-> RunAlt \cup {Not("missing")}]

\* The branches of the parser's if/elif chain a line takes.
IsDeviceLine(line) == "Memory Device" \in line.has

IsTypeLine(line) == ~IsDeviceLine(line) /\ "Type:" \in line.has /\ "Error" \notin line.has

IsSpeedLine(line) ==
    /\ ~IsDeviceLine(line) /\ ~IsTypeLine(line)
    /\ "Speed:" \in line.has /\ "Unknown" \notin line.has

\* The value of the first line among `hits`, None when there is none.
FirstValue(lines, hits) == IF hits = {} THEN None ELSE lines[Min(hits)].value

memory_hardware_calls(o) ==
    IF command_exists("dmidecode", o.which).ret
    THEN <<command_exists("dmidecode", o.which), run_command(dmidecode_cmd, TRUE, o.run)>>
    ELSE <<command_exists("dmidecode", o.which)>>

memory_hardware_info(o) ==
    LET r == run_command(dmidecode_cmd, TRUE, o.run).ret
        lines == r.stdout
        slots == Cardinality({i \in DOMAIN lines : IsDeviceLine(lines[i])})
        mem_type == FirstValue(lines, {i \in DOMAIN lines : IsTypeLine(lines[i])})
        speed == FirstValue(lines, {i \in DOMAIN lines : IsSpeedLine(lines[i])})
        d1 == IF slots > 0 THEN Put(EmptyDict, "memory_slots", slots) ELSE EmptyDict
        d2 == IF Truthy(mem_type) THEN Put(d1, "memory_type", mem_type) ELSE d1
    IN  IF command_exists("dmidecode", o.which).ret /\ r.returncode = 0 /\ Len(r.stdout) > 0
        THEN IF Truthy(speed) THEN Put(d2, "memory_speed", speed) ELSE d2
        ELSE EmptyDict

get_memory_hardware_info ==
    /\ pc = "get_memory_hardware_info"
    /\ \E o \in Choices(dmidecode_nominal, dmidecode_alt) :
         Effect(memory_hardware_calls(o), FALSE, Cost(o, dmidecode_nominal), "",
                Goto("store_memory",
                     IF Len(memory_hardware_info(o)) > 0
                     THEN Update(info, memory_hardware_info(o)) ELSE info))

store_memory ==
    /\ pc = "store_memory"
    /\ Return("get_memory_info", "memory", info, print_items(info))
    /\ UNCHANGED <<calls, deviations>>

(***************************************************************************)
(* Probe 5: get_graphics_info.                                             *)
(***************************************************************************)
get_graphics_info ==
    /\ pc = "get_graphics_info"
    /\ stdout' = stdout \o print_section("GRAPHICS INFORMATION")
    /\ pc' = "get_gpu_hardware"
    /\ info' = EmptyDict
    /\ UNCHANGED <<flags, data, aux, environ, calls, returned, raised, exit_code,
                   deviations>>

\* lspci piped through grep -i for a class of devices.  A line of its
\* output is the list of its ':'-separated parts, each stripped.
lspci_cmd(pattern) ==
    Sh("lspci | grep -i \"" \o pattern \o "\"", "lspci", {"lspci", "grep"}, "grep", FALSE)

\* ':'.join(line.split(':')[2:]).strip() for each line
RECURSIVE pci_descriptions(_)
pci_descriptions(lines) ==
    IF Len(lines) = 0 THEN <<>>
    ELSE <<Join(SubSeq(Head(lines), 3, Len(Head(lines))), ":")>>
         \o pci_descriptions(Tail(lines))

\* info[single] for one device, info[prefix_1], info[prefix_2], ... for more
pci_fields(devices, single, prefix) ==
    IF Len(devices) = 0 THEN EmptyDict
    ELSE IF Len(devices) = 1 THEN <<[k |-> single, v |-> devices[1]]>>
    ELSE [i \in DOMAIN devices |->
             [k |-> prefix \o (CASE i = 1 -> "1" [] i = 2 -> "2" [] OTHER -> "3"),
              v |-> devices[i]]]

\* The shared shape of get_gpu_hardware, get_audio_hardware and
\* get_network_hardware.
pci_calls(pattern, o) == checked_calls("lspci", lspci_cmd(pattern), o.which, o.run)

pci_info(pattern, single, prefix, o) ==
    LET r == run_command(lspci_cmd(pattern), TRUE, o.run).ret
    IN  IF command_exists("lspci", o.which).ret /\ r.returncode = 0 /\ Len(r.stdout) > 0
        THEN pci_fields(pci_descriptions(r.stdout), single, prefix)
        ELSE EmptyDict

gpu_nominal ==
    [which |-> Ok(<<>>),
     run |-> Ok(<< <<"00", "02.0 VGA compatible controller", "Intel UHD Graphics 620">> >>)]

gpu_alt ==
    [which |-> WhichAlt,
     run |-> RunAlt \cup
             {Ok(<< <<"00", "02.0 VGA compatible controller", "Intel UHD Graphics 620">>,
                    <<"01", "00.0 3D controller", "NVIDIA GP108M">> >>)}]

get_gpu_hardware ==
    /\ pc = "get_gpu_hardware"
    /\ \E o \in Choices(gpu_nominal, gpu_alt) :
         LET gpu_info == pci_info("vga\\|3d\\|display", "gpu", "gpu_", o)
         IN  Effect(pci_calls("vga\\|3d\\|display", o), FALSE, Cost(o, gpu_nominal), "",
                    Goto("get_display_server_info",
                         IF Len(gpu_info) > 0 THEN Update(info, gpu_info) ELSE info))

\* The three environment variables the probe reads; Gone("unset") is a
\* variable that is not set.
getenv_nominal ==
    [XDG_SESSION_TYPE |-> Ok("x11"), WAYLAND_DISPLAY |-> Gone("unset"), DISPLAY |-> Ok(":0")]

getenv_alt ==
    [XDG_SESSION_TYPE |-> {Ok("wayland"), Ok("tty"), Gone("unset")},
     WAYLAND_DISPLAY |-> {Ok("wayland-0"), Ok("")},
     DISPLAY |-> {Gone("unset"), Ok("")}]

\* os.getenv(name)
getenv(o, name) == IF o[name].cause = "ok" THEN o[name].out ELSE None

\* The classification, had DISPLAY been tested before the Wayland variables.
display_server_x11_first(o) ==
    LET session_type == IF o.XDG_SESSION_TYPE.cause = "ok" THEN o.XDG_SESSION_TYPE.out
                        ELSE "Unknown"
    IN  IF Truthy(getenv(o, "DISPLAY")) THEN "X11"
        ELSE IF Truthy(getenv(o, "WAYLAND_DISPLAY")) \/ session_type = "wayland"
        THEN "Wayland"
        ELSE "Console/TTY"

display_server(o) ==
    LET session_type == IF o.XDG_SESSION_TYPE.cause = "ok" THEN o.XDG_SESSION_TYPE.out
                        ELSE "Unknown"
    IN  IF Truthy(getenv(o, "WAYLAND_DISPLAY")) \/ session_type = "wayland" THEN "Wayland"
        ELSE IF Truthy(getenv(o, "DISPLAY")) THEN "X11"
        ELSE "Console/TTY"

\* get_display_server_info up to the call of the detector it chooses.
get_display_server_info ==
    /\ pc = "get_display_server_info"
    /\ \E o \in Choices(getenv_nominal, getenv_alt) :
         /\ deviations' = deviations + Cost(o, getenv_nominal)
         /\ environ' = [i \in 1..3 |->
                           LET name == <<"XDG_SESSION_TYPE", "WAYLAND_DISPLAY", "DISPLAY">>[i]
                           IN  [k |-> name, v |-> getenv(o, name)]]
         /\ info' = Update(info,
                       <<[k |-> "session_type",
                          v |-> IF o.XDG_SESSION_TYPE.cause = "ok"
                                THEN o.XDG_SESSION_TYPE.out ELSE "Unknown"],
                         [k |-> "display_server", v |-> display_server(o)]>>)
         /\ pc' = CASE display_server(o) = "Wayland" -> "detect_wayland_compositor"
                    [] display_server(o) = "X11" -> "detect_x11_window_manager"
                    [] OTHER -> "get_graphics_drivers"
    /\ UNCHANGED <<flags, data, aux, stdout, calls, returned, raised, exit_code>>

pgrep_cmd(name) == Sh("pgrep -x " \o name, "pgrep", {"pgrep"}, "none", FALSE)

\* The process table and pgrep: which of the candidates runs ("" none),
\* whether pgrep is installed, and what cuts the first scan short.
pgrep_answer(names, i, o) ==
    IF i = 1 /\ o.first.cause # "ok" THEN o.first
    ELSE IF o.pgrep.cause # "ok" THEN Not("missing")
    ELSE IF names[i] = o.running.out THEN Ok(<<"1234">>)
    ELSE Not("fail")

\* for name in names: run pgrep; return at the first exit status 0
RECURSIVE process_scan(_, _, _)
process_scan(names, i, o) ==
    IF i > Len(names) THEN <<>>
    ELSE LET call == run_command(pgrep_cmd(names[i]), TRUE, pgrep_answer(names, i, o))
         IN  IF call.ret.returncode = 0 THEN <<call>>
             ELSE <<call>> \o process_scan(names, i + 1, o)

scan_result(names, made, unknown) ==
    IF made[Len(made)].ret.returncode = 0 THEN names[Len(made)] ELSE unknown

compositors == <<"sway", "weston", "mutter", "kwin_wayland", "river", "wayfire", "hyprland">>

compositor_nominal == [running |-> Ok("sway"), pgrep |-> Ok(""), first |-> Ok(<<>>)]

compositor_alt ==
    [running |-> {Ok("hyprland"), Ok("")},
     pgrep |-> {Gone("missing")},
     first |-> {Not("hang"), Not("KeyboardInterrupt")}]

detect_wayland_compositor ==
    /\ pc = "detect_wayland_compositor"
    /\ \E o \in Choices(compositor_nominal, compositor_alt) :
         LET made == process_scan(compositors, 1, o)
             compositor == scan_result(compositors, made, "Unknown Wayland Compositor")
         IN  Effect(made, FALSE, Cost(o, compositor_nominal), "",
                    Goto("get_graphics_drivers",
                         IF Truthy(compositor) THEN Put(info, "compositor", compositor)
                         ELSE info))

wms == <<"i3", "awesome", "dwm", "bspwm", "openbox", "xfwm4", "kwin">>

wm_nominal == [running |-> Ok("i3"), pgrep |-> Ok(""), first |-> Ok(<<>>)]

wm_alt ==
    [running |-> {Ok("kwin"), Ok("")},
     pgrep |-> {Gone("missing")},
     first |-> {Not("hang"), Not("KeyboardInterrupt")}]

detect_x11_window_manager ==
    /\ pc = "detect_x11_window_manager"
    /\ \E o \in Choices(wm_nominal, wm_alt) :
         LET made == process_scan(wms, 1, o)
             wm == scan_result(wms, made, "Unknown WM")
         IN  Effect(made, FALSE, Cost(o, wm_nominal), "",
                    Goto("get_graphics_drivers",
                         IF Truthy(wm) THEN Put(info, "window_manager", wm) ELSE info))

driver_modules == <<"i915", "nouveau", "nvidia", "amdgpu", "radeon">>

modules_nominal ==
    [m \in {"i915", "nouveau", "nvidia", "amdgpu", "radeon"} |->
        IF m = "i915" THEN Ok("") ELSE Gone("absent")]

modules_alt ==
    [m \in {"i915", "nouveau", "nvidia", "amdgpu", "radeon"} |->
        IF m = "i915" THEN {Gone("absent")} ELSE {Ok("")}]

module_checks(o) ==
    [i \in DOMAIN driver_modules |->
        path_exists("/sys/module/" \o driver_modules[i], o[driver_modules[i]])]

graphics_drivers(o) ==
    LET drivers == SelectSeq(driver_modules, LAMBDA m : o[m].cause = "ok")
    IN  <<[k |-> "graphics_drivers",
           v |-> IF Len(drivers) > 0 THEN Join(drivers, ", ") ELSE "Unknown"]>>

get_graphics_drivers ==
    /\ pc = "get_graphics_drivers"
    /\ \E o \in Choices(modules_nominal, modules_alt) :
         Effect(module_checks(o), FALSE, Cost(o, modules_nominal), "",
                Goto(IF brief THEN "store_graphics" ELSE "get_opengl_info",
                     Update(info, graphics_drivers(o))))

glxinfo_cmd == Sh("glxinfo 2>/dev/null | head -20", "glxinfo", {"glxinfo", "head"}, "head", TRUE)

\* A line of glxinfo or vulkaninfo is <<text before its first ':', stripped
\* text after it>>.
glxinfo_nominal ==
    [which |-> Ok(<<>>),
     run |-> Ok(<< <<"name of display", ":0">>,
                   <<"OpenGL vendor string", "Intel">>,
                   <<"OpenGL renderer string", "Mesa Intel(R) UHD Graphics 620">>,
                   <<"OpenGL version string", "4.6 (Compatibility Profile) Mesa 24.0">> >>)]

glxinfo_alt ==
    [which |-> WhichAlt, run |-> RunAlt \cup {Ok(<< <<"name of display", ":0">> >>)}]

opengl_keys ==
    <<[k |-> "OpenGL vendor string", v |-> "opengl_vendor"],
      [k |-> "OpenGL renderer string", v |-> "opengl_renderer"],
      [k |-> "OpenGL version string", v |-> "opengl_version"]>>

RECURSIVE opengl_fields(_, _)
opengl_fields(lines, d) ==
    IF Len(lines) = 0 THEN d
    ELSE opengl_fields(Tail(lines),
                       IF Has(opengl_keys, Head(lines)[1])
                       THEN Put(d, Get(opengl_keys, Head(lines)[1]), Head(lines)[2])
                       ELSE d)

\* `command_exists('glxinfo') and os.getenv('DISPLAY')`
opengl_calls(o) ==
    IF command_exists("glxinfo", o.which).ret /\ Truthy(Get(environ, "DISPLAY"))
    THEN <<command_exists("glxinfo", o.which), run_command(glxinfo_cmd, TRUE, o.run)>>
    ELSE <<command_exists("glxinfo", o.which)>>

opengl_info(o) ==
    LET r == run_command(glxinfo_cmd, TRUE, o.run).ret
    IN  IF Len(opengl_calls(o)) = 2 /\ r.returncode = 0 /\ Len(r.stdout) > 0
        THEN opengl_fields(r.stdout, EmptyDict)
        ELSE EmptyDict

get_opengl_info ==
    /\ pc = "get_opengl_info"
    /\ \E o \in Choices(glxinfo_nominal, glxinfo_alt) :
         Effect(opengl_calls(o), FALSE, Cost(o, glxinfo_nominal), "",
                Goto("get_vulkan_info",
                     IF Len(opengl_info(o)) > 0 THEN Update(info, opengl_info(o)) ELSE info))

vulkaninfo_cmd ==
    Sh("vulkaninfo --summary 2>/dev/null | head -10", "vulkaninfo", {"vulkaninfo", "head"},
       "head", TRUE)

vulkaninfo_nominal ==
    [which |-> Ok(<<>>),
     run |-> Ok(<< <<"VULKANINFO">>, <<"Vulkan Instance Version", "1.3.275">> >>)]

vulkaninfo_alt == [which |-> WhichAlt, run |-> RunAlt \cup {Ok(<< <<"VULKANINFO">> >>)}]

vulkan_calls(o) ==
    IF command_exists("vulkaninfo", o.which).ret
    THEN <<command_exists("vulkaninfo", o.which), run_command(vulkaninfo_cmd, TRUE, o.run)>>
    ELSE <<command_exists("vulkaninfo", o.which)>>

vulkan_info(o) ==
    LET r == run_command(vulkaninfo_cmd, TRUE, o.run).ret
        hits == {i \in DOMAIN r.stdout : r.stdout[i][1] = "Vulkan Instance Version"}
    IN  IF ~command_exists("vulkaninfo", o.which).ret THEN EmptyDict
        ELSE IF r.returncode = 0 /\ Len(r.stdout) > 0
        THEN IF hits = {} THEN EmptyDict
             ELSE <<[k |-> "vulkan_version", v |-> r.stdout[Min(hits)][2]]>>
        ELSE <<[k |-> "vulkan_support", v |-> "Not available"]>>

get_vulkan_info ==
    /\ pc = "get_vulkan_info"
    /\ \E o \in Choices(vulkaninfo_nominal, vulkaninfo_alt) :
         Effect(vulkan_calls(o), FALSE, Cost(o, vulkaninfo_nominal), "",
                Goto("store_graphics",
                     IF Len(vulkan_info(o)) > 0 THEN Update(info, vulkan_info(o)) ELSE info))

store_graphics ==
    /\ pc = "store_graphics"
    /\ Return("get_graphics_info", "graphics", info, print_items(info))
    /\ UNCHANGED <<calls, deviations>>

(***************************************************************************)
(* Probe 6: get_audio_info.                                                *)
(***************************************************************************)
get_audio_info ==
    /\ pc = "get_audio_info"
    /\ stdout' = stdout \o print_section("AUDIO INFORMATION")
    /\ pc' = "get_audio_hardware"
    /\ info' = EmptyDict
    /\ UNCHANGED <<flags, data, aux, environ, calls, returned, raised, exit_code,
                   deviations>>

audio_hw_nominal ==
    [which |-> Ok(<<>>),
     run |-> Ok(<< <<"00", "1f.3 Audio device", "Intel Cannon Point-LP HD Audio">> >>)]

audio_hw_alt ==
    [which |-> WhichAlt,
     run |-> RunAlt \cup
             {Ok(<< <<"00", "1f.3 Audio device", "Intel Cannon Point-LP HD Audio">>,
                    <<"01", "00.1 Audio device", "NVIDIA HDMI Audio">> >>)}]

get_audio_hardware ==
    /\ pc = "get_audio_hardware"
    /\ \E o \in Choices(audio_hw_nominal, audio_hw_alt) :
         LET audio_hw == pci_info("audio\\|sound", "audio_hardware", "audio_device_", o)
         IN  Effect(pci_calls("audio\\|sound", o), FALSE, Cost(o, audio_hw_nominal), "",
                    Goto("get_audio_system_info",
                         IF Len(audio_hw) > 0 THEN Update(info, audio_hw) ELSE info))

aplay_cmd ==
    Sh("aplay -l 2>/dev/null | grep \"^card\" | wc -l", "aplay", {"aplay", "grep", "wc"},
       "wc", TRUE)

pactl_cmd == Sh("pactl info 2>/dev/null", "pactl", {"pactl"}, "none", TRUE)

pw_cli_cmd == Sh("pw-cli info 2>/dev/null", "pw-cli", {"pw-cli"}, "none", TRUE)

\* aplay: its lines that begin with "card".  pactl: a line is <<text
\* before its first ':', stripped text after it>>.  pw-cli: whether the
\* line contains "version" in any case, and the first "digits.digits" it
\* has between double quotes (None when none).
audio_sys_nominal ==
    [which_aplay |-> Ok(<<>>),
     aplay |-> Ok(<<"card 0: PCH [HDA Intel PCH]", "card 1: HDMI [HDA ATI HDMI]">>),
     which_pactl |-> Ok(<<>>),
     pactl |-> Ok(<< <<"Server Name", "pulseaudio">>, <<"Server Version", "15.0">> >>),
     which_pw |-> Ok(<<>>),
     pw |-> Ok(<<[version |-> FALSE, quoted |-> None],
                 [version |-> TRUE, quoted |-> None],
                 [version |-> TRUE, quoted |-> "0.3.48"]>>)]

audio_sys_alt ==
    [which_aplay |-> WhichAlt,
     aplay |-> RunAlt,
     which_pactl |-> WhichAlt,
     pactl |-> RunAlt \cup {Ok(<< <<"Server Name", "pulseaudio">> >>)},
     which_pw |-> WhichAlt,
     pw |-> RunAlt \cup {Ok(<<[version |-> TRUE, quoted |-> None]>>)}]

audio_system_calls(o) ==
    checked_calls("aplay", aplay_cmd, o.which_aplay, o.aplay)
    \o checked_calls("pactl", pactl_cmd, o.which_pactl, o.pactl)
    \o checked_calls("pw-cli", pw_cli_cmd, o.which_pw, o.pw)

audio_system_info(o) ==
    LET alsa == checked_ret("aplay", aplay_cmd, o.which_aplay, o.aplay)
        pulse == checked_ret("pactl", pactl_cmd, o.which_pactl, o.pactl)
        pipewire == checked_ret("pw-cli", pw_cli_cmd, o.which_pw, o.pw)
        versions == {i \in DOMAIN pulse.stdout : pulse.stdout[i][1] = "Server Version"}
        matches == {i \in DOMAIN pipewire.stdout :
                       pipewire.stdout[i].version /\ pipewire.stdout[i].quoted # None}
    IN  (IF Usable(alsa) THEN <<[k |-> "alsa_sound_cards", v |-> alsa.stdout[1]]>> ELSE <<>>)
        \o (IF Usable(pulse) /\ versions # {}
            THEN <<[k |-> "pulseaudio_version", v |-> pulse.stdout[Min(versions)][2]]>>
            ELSE <<>>)
        \o (IF Usable(pipewire) /\ matches # {}
            THEN <<[k |-> "pipewire_version", v |-> pipewire.stdout[Min(matches)].quoted]>>
            ELSE <<>>)

get_audio_system_info ==
    /\ pc = "get_audio_system_info"
    /\ \E o \in Choices(audio_sys_nominal, audio_sys_alt) :
         Effect(audio_system_calls(o), FALSE, Cost(o, audio_sys_nominal), "",
                Goto("store_audio",
                     IF Len(audio_system_info(o)) > 0
                     THEN Update(info, audio_system_info(o)) ELSE info))

store_audio ==
    /\ pc = "store_audio"
    /\ Return("get_audio_info", "audio", info, print_items(info))
    /\ UNCHANGED <<calls, deviations>>

(***************************************************************************)
(* Probe 7: get_network_info.                                              *)
(***************************************************************************)
get_network_info ==
    /\ pc = "get_network_info"
    /\ stdout' = stdout \o print_section("NETWORK INFORMATION")
    /\ pc' = "get_network_interfaces"
    /\ info' = EmptyDict
    /\ UNCHANGED <<flags, data, aux, environ, calls, returned, raised, exit_code,
                   deviations>>

ip_link_cmd == Sh("ip link show", "ip", {"ip"}, "none", FALSE)

ip_addr_cmd(interface) == Sh("ip addr show " \o interface, "ip", {"ip"}, "none", FALSE)

\* A line of `ip link show`: whether it starts with digits, ':' and
\* blanks; the longest run of word characters that follows and the
\* character after that run; which of the substrings the parser tests it
\* contains; the 17 characters after "link/ether" and blanks (None when
\* there are none).
LinkLine(number, word, after, has, ether) ==
    [number |-> number, word |-> word, after |-> after, has |-> has, ether |-> ether]

lo_lines ==
    <<LinkLine(TRUE, "lo", ":", {}, None),
      LinkLine(FALSE, "", "", {}, None)>>

eth0_lines ==
    <<LinkLine(TRUE, "eth0", ":", {"state UP"}, None),
      LinkLine(FALSE, "", "", {"link/ether"}, "aa:bb:cc:dd:ee:01")>>

wlan0_lines ==
    <<LinkLine(TRUE, "wlan0", ":", {"state DOWN"}, None),
      LinkLine(FALSE, "", "", {"link/ether"}, "AA:BB:CC:DD:EE:02")>>

br_lan_lines ==
    <<LinkLine(TRUE, "br", "-", {"state UP"}, None),
      LinkLine(FALSE, "", "", {"link/ether"}, "aa:bb:cc:dd:ee:03")>>

network_if_nominal ==
    [which |-> Ok(<<>>), link |-> Ok(lo_lines \o eth0_lines), addr |-> Ok(<<>>)]

\* addr: what cuts the first `ip addr show` short.
network_if_alt ==
    [which |-> WhichAlt,
     link |-> RunAlt \cup {Ok(lo_lines \o eth0_lines \o br_lan_lines),
                           Ok(eth0_lines \o wlan0_lines)},
     addr |-> RunAlt]

\* re.match(r'^\d+:\s+(\w+):', line)
interface_match(line) == line.number /\ line.word # "" /\ line.after = ":"

\* The loop over the lines of `ip link show`, from the dict and the
\* current interface it has so far.
RECURSIVE link_parse(_, _, _)
link_parse(lines, interfaces, current_interface) ==
    IF Len(lines) = 0 THEN interfaces
    ELSE LET line == Head(lines)
             state == IF "state UP" \in line.has THEN "UP"
                      ELSE IF "state DOWN" \in line.has THEN "DOWN"
                      ELSE "UNKNOWN"
             hex == {"0", "1", "2", "3", "4", "5", "6", "7", "8", "9",
                       "a", "b", "c", "d", "e", "f", ":"}
             mac_match == /\ line.ether # None
                          /\ \A i \in 1..Len(line.ether) : SubSeq(line.ether, i, i) \in hex
         IN  IF interface_match(line)
             THEN link_parse(Tail(lines),
                             Put(interfaces, line.word, <<[k |-> "state", v |-> state]>>),
                             line.word)
             ELSE IF current_interface # None /\ "link/ether" \in line.has /\ mac_match
             THEN link_parse(Tail(lines),
                             Put(interfaces, current_interface,
                                 Put(Get(interfaces, current_interface), "mac_address",
                                     line.ether)),
                             current_interface)
             ELSE link_parse(Tail(lines), interfaces, current_interface)

\* What `ip addr show <interface>` prints: per line, group 1 of the inet
\* match and of the inet6 match (None without a match).
AddrLine(inet, inet6) == [inet |-> inet, inet6 |-> inet6]

ip_addr_output(interface) ==
    CASE interface = "lo" -> <<AddrLine("127.0.0.1/8", None), AddrLine(None, "::1/128")>>
      [] interface = "eth0" -> <<AddrLine("192.168.1.10/24", None),
                                 AddrLine(None, "fe80::1/64")>>
      [] OTHER -> <<AddrLine(None, None)>>

addresses(r) ==
    LET ipv4_addresses ==
            SelectSeq([i \in DOMAIN r.stdout |-> r.stdout[i].inet], LAMBDA a : a # None)
        ipv6_addresses ==
            SelectSeq([i \in DOMAIN r.stdout |-> r.stdout[i].inet6],
                      LAMBDA a : a # None /\ ~(Len(a) >= 3 /\ SubSeq(a, 1, 3) = "::1"))
    IN  IF ~Usable(r) THEN EmptyDict
        ELSE (IF Len(ipv4_addresses) > 0
              THEN <<[k |-> "ipv4", v |-> Join(ipv4_addresses, ", ")]>> ELSE <<>>)
             \o (IF Len(ipv6_addresses) > 0
                 THEN <<[k |-> "ipv6", v |-> Join(ipv6_addresses, ", ")]>> ELSE <<>>)

link_interfaces(o) ==
    LET r == checked_ret("ip", ip_link_cmd, o.which, o.link)
    IN  IF Usable(r) THEN link_parse(r.stdout, EmptyDict, None) ELSE EmptyDict

addr_call(o, names, i) ==
    run_command(ip_addr_cmd(names[i].k), TRUE,
                IF i = 1 /\ o.addr.cause # "ok" THEN o.addr
                ELSE Ok(ip_addr_output(names[i].k)))

network_if_calls(o) ==
    checked_calls("ip", ip_link_cmd, o.which, o.link)
    \o [i \in DOMAIN link_interfaces(o) |-> addr_call(o, link_interfaces(o), i)]

network_interfaces(o) ==
    LET found == link_interfaces(o)
    IN  [i \in DOMAIN found |->
            [k |-> found[i].k, v |-> Update(found[i].v, addresses(addr_call(o, found, i).ret))]]

get_network_interfaces ==
    /\ pc = "get_network_interfaces"
    /\ \E o \in Choices(network_if_nominal, network_if_alt) :
         Effect(network_if_calls(o), FALSE, Cost(o, network_if_nominal), "",
                GotoAux("get_network_hardware", network_interfaces(o)))

network_hw_nominal ==
    [which |-> Ok(<<>>),
     run |-> Ok(<< <<"02", "00.0 Ethernet controller", "Realtek RTL8111">> >>)]

network_hw_alt ==
    [which |-> WhichAlt,
     run |-> RunAlt \cup
             {Ok(<< <<"02", "00.0 Ethernet controller", "Realtek RTL8111">>,
                    <<"03", "00.0 Network controller", "Intel Wi-Fi 6 AX200">> >>)}]

\* get_network_info, had it tested the connectivity whatever self.brief is.
get_network_hardware_ungated ==
    /\ pc = "get_network_hardware"
    /\ \E o \in Choices(network_hw_nominal, network_hw_alt) :
         LET pattern == "network\\|ethernet\\|wireless\\|wifi"
             network_hw == pci_info(pattern, "network_hardware", "network_device_", o)
         IN  Effect(pci_calls(pattern, o), FALSE, Cost(o, network_hw_nominal), "",
                    Goto("test_connectivity",
                         IF Len(network_hw) > 0 THEN Update(info, network_hw) ELSE info))

get_network_hardware ==
    /\ pc = "get_network_hardware"
    /\ \E o \in Choices(network_hw_nominal, network_hw_alt) :
         LET pattern == "network\\|ethernet\\|wireless\\|wifi"
             network_hw == pci_info(pattern, "network_hardware", "network_device_", o)
         IN  Effect(pci_calls(pattern, o), FALSE, Cost(o, network_hw_nominal), "",
                    Goto(IF brief THEN "store_network" ELSE "test_connectivity",
                         IF Len(network_hw) > 0 THEN Update(info, network_hw) ELSE info))

test_hosts == <<"8.8.8.8", "google.com">>

ping_cmd(host) == Sh("ping -c 1 -W 2 " \o host, "ping", {"ping"}, "none", FALSE)

\* reach: the hosts that answer; ping: whether ping is installed; first:
\* what cuts the first ping short.
ping_nominal == [reach |-> Ok(test_hosts), ping |-> Ok(""), first |-> Ok(<<>>)]

ping_alt ==
    [reach |-> {Ok(<<"google.com">>), Ok(<<>>)},
     ping |-> {Gone("missing")},
     first |-> {Not("hang"), Not("KeyboardInterrupt")}]

ping_answer(i, o) ==
    IF i = 1 /\ o.first.cause # "ok" THEN o.first
    ELSE IF o.ping.cause # "ok" THEN Not("missing")
    ELSE IF \E j \in DOMAIN o.reach.out : o.reach.out[j] = test_hosts[i]
    THEN Ok(<<"1 packets transmitted, 1 received">>)
    ELSE Not("fail")

RECURSIVE ping_calls(_, _)
ping_calls(i, o) ==
    IF i > Len(test_hosts) THEN <<>>
    ELSE LET call == run_command(ping_cmd(test_hosts[i]), TRUE, ping_answer(i, o))
         IN  IF call.ret.returncode = 0 THEN <<call>>
             ELSE <<call>> \o ping_calls(i + 1, o)

connectivity(made) ==
    IF made[Len(made)].ret.returncode = 0 THEN "Connected" ELSE "No connectivity"

test_connectivity ==
    /\ pc = "test_connectivity"
    /\ \E o \in Choices(ping_nominal, ping_alt) :
         LET made == ping_calls(1, o)
         IN  Effect(made, FALSE, Cost(o, ping_nominal), "",
                    Goto("store_network",
                         IF Truthy(connectivity(made))
                         THEN Put(info, "internet_connectivity", connectivity(made))
                         ELSE info))

interface_rows(interfaces) ==
    [i \in DOMAIN interfaces |->
        <<interfaces[i].k,
          GetOr(interfaces[i].v, "state", "Unknown"),
          GetOr(interfaces[i].v, "mac_address", "N/A"),
          GetOr(interfaces[i].v, "ipv4", "N/A"),
          GetOr(interfaces[i].v, "ipv6", "N/A")>>]

store_network ==
    /\ pc = "store_network"
    /\ Return("get_network_info", "network", info,
              print_items(info)
              \o (IF Len(aux) > 0
                  THEN print_table(<<"Interface", "State", "MAC Address", "IPv4", "IPv6">>,
                                   interface_rows(aux), "Network Interfaces")
                  ELSE <<>>))
    /\ UNCHANGED <<calls, deviations>>

(***************************************************************************)
(* Probe 8: get_storage_info.                                              *)
(***************************************************************************)
get_storage_info ==
    /\ pc = "get_storage_info"
    /\ stdout' = stdout \o print_section("STORAGE INFORMATION")
    /\ pc' = "get_block_devices"
    /\ info' = EmptyDict
    /\ UNCHANGED <<flags, data, aux, environ, calls, returned, raised, exit_code,
                   deviations>>

lsblk_cmd == Sh("lsblk -J", "lsblk", {"lsblk"}, "none", FALSE)

\* JSON values as json.loads gives them.
JNull == [t |-> "null"]

JStr(text) == [t |-> "str", s |-> text]

JList(items) == [t |-> "list", items |-> items]

JDict(d) == [t |-> "dict", d |-> d]

\* The text is not JSON: json.loads raises JSONDecodeError.
JInvalid == [t |-> "invalid"]

\* The Python value of a JSON string or null.
Plain(j) == IF j.t = "null" THEN None ELSE j.s

\* dict.get(key, default) on a JSON object
JGet(j, key, default) == IF Has(j.d, key) THEN Plain(Get(j.d, key)) ELSE default

\* `if device.get(key):`
JTruthy(j, key) ==
    /\ Has(j.d, key)
    /\ LET v == Get(j.d, key)
       IN  CASE v.t = "str" -> v.s # ""
             [] v.t = "list" -> Len(v.items) > 0
             [] OTHER -> FALSE

sda2 ==
    JDict(<<[k |-> "name", v |-> JStr("sda2")], [k |-> "size", v |-> JStr("465G")],
            [k |-> "type", v |-> JStr("part")], [k |-> "mountpoint", v |-> JStr("/")]>>)

sda(extra) ==
    JDict(<<[k |-> "name", v |-> JStr("sda")], [k |-> "size", v |-> JStr("465.8G")],
            [k |-> "type", v |-> JStr("disk")], [k |-> "mountpoint", v |-> JNull]>>
          \o extra)

\* stdout of lsblk -J: one JSON text, kept as the value it parses to.
lsblk_nominal ==
    [which |-> Ok(<<>>),
     run |-> Ok(<<JDict(<<[k |-> "blockdevices",
                          v |-> JList(<<sda(<<[k |-> "children",
                                               v |-> JList(<<sda2>>)]>>)>>)]>>)>>)]

lsblk_alt ==
    [which |-> WhichAlt,
     run |-> RunAlt \cup
             {Ok(<<JInvalid>>),
              Ok(<<JDict(<<[k |-> "blockdevices", v |-> JNull]>>)>>),
              Ok(<<JDict(EmptyDict)>>),
              Ok(<<JDict(<<[k |-> "blockdevices",
                           v |-> JList(<<sda(<<[k |-> "model",
                                                v |-> JStr("Samsung SSD 860")]>>)>>)]>>)>>)}]

device_entry(j) ==
    <<[k |-> "size", v |-> JGet(j, "size", "Unknown")],
      [k |-> "type", v |-> JGet(j, "type", "Unknown")],
      [k |-> "mountpoint", v |-> JGet(j, "mountpoint", "Not mounted")],
      [k |-> "fstype", v |-> JGet(j, "fstype", "Unknown")]>>

RECURSIVE children_entries(_, _)
children_entries(children, devices) ==
    IF Len(children) = 0 THEN devices
    ELSE children_entries(Tail(children),
                          Put(devices, JGet(Head(children), "name", "unknown"),
                              device_entry(Head(children))))

RECURSIVE blockdevice_entries(_, _)
blockdevice_entries(blockdevices, devices) ==
    IF Len(blockdevices) = 0 THEN devices
    ELSE LET device == Head(blockdevices)
             name == JGet(device, "name", "unknown")
             entry == IF JTruthy(device, "model")
                      THEN Put(device_entry(device), "model", JGet(device, "model", None))
                      ELSE device_entry(device)
             with_device == Put(devices, name, entry)
         IN  blockdevice_entries(Tail(blockdevices),
                                 IF JTruthy(device, "children")
                                 THEN children_entries(Get(device.d, "children").items,
                                                       with_device)
                                 ELSE with_device)

\* The JSON the try block parses, when the block is entered.
lsblk_json(o) ==
    LET r == checked_ret("lsblk", lsblk_cmd, o.which, o.run)
    IN  IF Usable(r) THEN r.stdout[1] ELSE JInvalid

\* Only json.JSONDecodeError is caught: iterating a null "blockdevices"
\* raises TypeError.
block_devices_raises(o) ==
    LET j == lsblk_json(o)
    IN  IF j.t = "dict" /\ Has(j.d, "blockdevices") /\ Get(j.d, "blockdevices").t = "null"
        THEN "TypeError" ELSE ""

block_devices(o) ==
    LET j == lsblk_json(o)
    IN  IF j.t = "dict" /\ Has(j.d, "blockdevices") /\ Get(j.d, "blockdevices").t = "list"
        THEN blockdevice_entries(Get(j.d, "blockdevices").items, EmptyDict)
        ELSE EmptyDict

get_block_devices ==
    /\ pc = "get_block_devices"
    /\ \E o \in Choices(lsblk_nominal, lsblk_alt) :
         Effect(checked_calls("lsblk", lsblk_cmd, o.which, o.run), FALSE,
                Cost(o, lsblk_nominal), block_devices_raises(o),
                GotoAux("get_filesystem_usage", Put(aux, "block_devices", block_devices(o))))

df_cmd ==
    Sh("df -h -t ext4 -t ext3 -t ext2 -t btrfs -t xfs -t zfs", "df", {"df"}, "none", FALSE)

\* A line of df is the list of its blank-separated parts.
df_header == <<"Filesystem", "Size", "Used", "Avail", "Use%", "Mounted", "on">>

df_nominal ==
    [which |-> Ok(<<>>),
     run |-> Ok(<<df_header, <<"/dev/sda2", "458G", "120G", "315G", "28%", "/">> >>)]

df_alt ==
    [which |-> WhichAlt,
     run |-> RunAlt \cup
             {Ok(<<df_header, <<"/dev/mapper/vg0-a-long-volume-name">>,
                   <<"458G", "120G", "315G", "28%", "/home">> >>)}]

RECURSIVE df_entries(_, _)
df_entries(lines, filesystems) ==
    IF Len(lines) = 0 THEN filesystems
    ELSE LET parts == Head(lines)
         IN  df_entries(Tail(lines),
                        IF Len(parts) >= 6
                        THEN Put(filesystems, parts[1],
                                 <<[k |-> "size", v |-> parts[2]],
                                   [k |-> "used", v |-> parts[3]],
                                   [k |-> "available", v |-> parts[4]],
                                   [k |-> "use_percent", v |-> parts[5]],
                                   [k |-> "mountpoint", v |-> parts[6]]>>)
                        ELSE filesystems)

filesystem_usage(o) ==
    LET r == checked_ret("df", df_cmd, o.which, o.run)
    IN  IF Usable(r) THEN df_entries(Tail(r.stdout), EmptyDict) ELSE EmptyDict

get_filesystem_usage ==
    /\ pc = "get_filesystem_usage"
    /\ \E o \in Choices(df_nominal, df_alt) :
         Effect(checked_calls("df", df_cmd, o.which, o.run), FALSE, Cost(o, df_nominal), "",
                GotoAux(IF verbose THEN "get_disk_health" ELSE "store_storage",
                        Put(Put(aux, "filesystems", filesystem_usage(o)),
                            "disk_health", EmptyDict)))

ls_cmd(device_path) == Sh("ls " \o device_path \o " 2>/dev/null", "ls", {"ls"}, "none", TRUE)

smartctl_cmd(device) ==
    Sh("sudo smartctl -H " \o device \o " 2>/dev/null", "sudo", {"sudo", "smartctl"},
       "none", TRUE)

\* A line of smartctl -H: whether it contains "SMART overall-health", and
\* its split(':', 1) with the second part stripped.
SmartLine(health, parts) == [health |-> health, parts |-> parts]

smart_passed ==
    <<SmartLine(FALSE, <<"=== START OF READ SMART DATA SECTION ===">>),
      SmartLine(TRUE, <<"SMART overall-health self-assessment test result", "PASSED">>)>>

\* ls: one line per path the pattern matches.  smart: what every run of
\* smartctl does.
disk_health_nominal ==
    [which |-> Ok(<<>>), ls_sd |-> Ok(<<"/dev/sda">>), ls_nvme |-> Not("fail"),
     smart |-> Ok(smart_passed)]

disk_health_alt ==
    [which |-> WhichAlt,
     ls_sd |-> RunAlt \cup {Ok(<<"/dev/sda", "/dev/sdb", "/dev/sdc", "/dev/sdd", "/dev/sde",
                                 "/dev/sdf">>)},
     ls_nvme |-> {Ok(<<"/dev/nvme0n1">>)},
     smart |-> RunAlt \cup {Ok(<<SmartLine(FALSE, <<"SMART Health Status", "OK">>)>>),
                            Ok(<<SmartLine(TRUE, <<"SMART overall-health unavailable">>)>>)}]

\* The devices, had the list not been cut to its first five.
disk_devices_all(o) ==
    LET sd == run_command(ls_cmd("/dev/sd?"), TRUE, o.ls_sd).ret
        nvme == run_command(ls_cmd("/dev/nvme?n1"), TRUE, o.ls_nvme).ret
    IN  (IF Usable(sd) THEN sd.stdout ELSE <<>>)
        \o (IF Usable(nvme) THEN nvme.stdout ELSE <<>>)

\* disk_devices[:5]
disk_devices(o) ==
    LET sd == run_command(ls_cmd("/dev/sd?"), TRUE, o.ls_sd).ret
        nvme == run_command(ls_cmd("/dev/nvme?n1"), TRUE, o.ls_nvme).ret
        all == (IF Usable(sd) THEN sd.stdout ELSE <<>>)
               \o (IF Usable(nvme) THEN nvme.stdout ELSE <<>>)
    IN  SubSeq(all, 1, IF Len(all) < 5 THEN Len(all) ELSE 5)

\* The first line with the marker, 0 when there is none.
health_line(r) ==
    LET hits == {i \in DOMAIN r.stdout : r.stdout[i].health}
    IN  IF Usable(r) /\ hits # {} THEN Min(hits) ELSE 0

\* line.split(':', 1)[1] of a line without ':' raises IndexError, which
\* nothing catches.
disk_health_raises(o) ==
    LET r == run_command(smartctl_cmd("/dev/sda"), TRUE, o.smart).ret
    IN  IF command_exists("smartctl", o.which).ret /\ Len(disk_devices(o)) > 0
           /\ health_line(r) > 0 /\ Len(r.stdout[health_line(r)].parts) < 2
        THEN "IndexError" ELSE ""

disk_health_calls(o) ==
    IF ~command_exists("smartctl", o.which).ret THEN <<command_exists("smartctl", o.which)>>
    ELSE <<command_exists("smartctl", o.which),
           run_command(ls_cmd("/dev/sd?"), TRUE, o.ls_sd),
           run_command(ls_cmd("/dev/nvme?n1"), TRUE, o.ls_nvme)>>
         \o [i \in 1..(IF disk_health_raises(o) # "" THEN 1 ELSE Len(disk_devices(o))) |->
                run_command(smartctl_cmd(disk_devices(o)[i]), TRUE, o.smart)]

disk_health(o) ==
    LET devices == disk_devices(o)
        checked == SelectSeq(devices,
                       LAMBDA device :
                           health_line(run_command(smartctl_cmd(device), TRUE, o.smart).ret) > 0)
    IN  IF ~command_exists("smartctl", o.which).ret THEN EmptyDict
        ELSE [i \in DOMAIN checked |->
                 LET r == run_command(smartctl_cmd(checked[i]), TRUE, o.smart).ret
                 IN  [k |-> checked[i], v |-> r.stdout[health_line(r)].parts[2]]]

get_disk_health ==
    /\ pc = "get_disk_health"
    /\ \E o \in Choices(disk_health_nominal, disk_health_alt) :
         Effect(disk_health_calls(o), FALSE, Cost(o, disk_health_nominal),
                disk_health_raises(o),
                GotoAux("store_storage", Put(aux, "disk_health", disk_health(o))))

\* str(value) of a table cell
Str(value) == IF value = None THEN "None" ELSE value

device_rows(devices) ==
    [i \in DOMAIN devices |->
        <<devices[i].k,
          Str(GetOr(devices[i].v, "size", "Unknown")),
          Str(GetOr(devices[i].v, "type", "Unknown")),
          Str(GetOr(devices[i].v, "fstype", "Unknown")),
          Str(GetOr(devices[i].v, "mountpoint", "Not mounted")),
          Str(GetOr(devices[i].v, "model", "N/A"))>>]

fs_rows(filesystems) ==
    [i \in DOMAIN filesystems |->
        <<filesystems[i].k,
          GetOr(filesystems[i].v, "size", "Unknown"),
          GetOr(filesystems[i].v, "used", "Unknown"),
          GetOr(filesystems[i].v, "available", "Unknown"),
          GetOr(filesystems[i].v, "use_percent", "Unknown"),
          GetOr(filesystems[i].v, "mountpoint", "Unknown")>>]

health_rows(health) == [i \in DOMAIN health |-> <<health[i].k, health[i].v>>]

\* get_storage_info from `self.data['storage'] = {...}` on.  The section
\* is the three results; the dict named info stays empty.
store_storage ==
    /\ pc = "store_storage"
    /\ Return("get_storage_info", "storage", aux,
              (IF Len(Get(aux, "block_devices")) > 0
               THEN print_table(<<"Device", "Size", "Type", "Filesystem", "Mount Point",
                                  "Model">>,
                                device_rows(Get(aux, "block_devices")), "Block Devices")
               ELSE <<>>)
              \o (IF Len(Get(aux, "filesystems")) > 0
                  THEN print_table(<<"Filesystem", "Size", "Used", "Available", "Use%",
                                     "Mount Point">>,
                                   fs_rows(Get(aux, "filesystems")), "Filesystem Usage")
                  ELSE <<>>)
              \o (IF Len(Get(aux, "disk_health")) > 0
                  THEN print_table(<<"Device", "Health Status">>,
                                   health_rows(Get(aux, "disk_health")), "Disk Health (SMART)")
                  ELSE <<>>))
    /\ UNCHANGED <<calls, deviations>>

(***************************************************************************)
(* Probe 9: get_usb_info.                                                  *)
(***************************************************************************)
lsusb_cmd == Sh("lsusb", "lsusb", {"lsusb"}, "none", FALSE)

\* A line of lsusb: its split(' ', 6), and whether its lower case contains
\* "root hub".
UsbLine(parts, root_hub) == [parts |-> parts, root_hub |-> root_hub]

usb_hub ==
    UsbLine(<<"Bus", "001", "Device", "001:", "ID", "1d6b:0002",
              "Linux Foundation 2.0 root hub">>, TRUE)

usb_mouse ==
    UsbLine(<<"Bus", "001", "Device", "003:", "ID", "046d:c52b",
              "Logitech, Inc. Unifying Receiver">>, FALSE)

usb_nominal == [which |-> Ok(<<>>), run |-> Ok(<<usb_hub, usb_mouse>>)]

usb_alt ==
    [which |-> WhichAlt,
     run |-> RunAlt \cup
             {Ok(<<usb_hub>>),
              Ok(<<usb_hub, UsbLine(<<"Bus", "002", "Device", "004:", "ID", "0bda:8153">>,
                                    FALSE)>>)}]

\* text.rstrip(':')
RECURSIVE rstrip_colon(_)
rstrip_colon(text) ==
    IF Len(text) > 0 /\ SubSeq(text, Len(text), Len(text)) = ":"
    THEN rstrip_colon(SubSeq(text, 1, Len(text) - 1))
    ELSE text

usb_device_rows(lines) ==
    LET kept == SelectSeq(lines, LAMBDA line : ~line.root_hub /\ Len(line.parts) >= 7)
    IN  [i \in DOMAIN kept |->
            <<kept[i].parts[2], rstrip_colon(kept[i].parts[4]), kept[i].parts[6],
              kept[i].parts[7]>>]

usb_info(o) ==
    LET r == checked_ret("lsusb", lsusb_cmd, o.which, o.run)
    IN  IF ~Usable(r) THEN EmptyDict
        ELSE IF Len(usb_device_rows(r.stdout)) > 0
        THEN <<[k |-> "device_count", v |-> Len(usb_device_rows(r.stdout))]>>
        ELSE <<[k |-> "devices", v |-> "None detected"]>>

usb_lines(o) ==
    LET r == checked_ret("lsusb", lsusb_cmd, o.which, o.run)
    IN  IF ~Usable(r) THEN <<>>
        ELSE IF Len(usb_device_rows(r.stdout)) > 0
        THEN print_table(<<"Bus", "Device", "ID", "Description">>, usb_device_rows(r.stdout),
                         "USB Devices")
        ELSE print_info("USB Devices", "None detected")

get_usb_info ==
    /\ pc = "get_usb_info"
    /\ stdout' = stdout \o print_section("USB INFORMATION")
    /\ pc' = "store_usb"
    /\ info' = EmptyDict
    /\ UNCHANGED <<flags, data, aux, environ, calls, returned, raised, exit_code,
                   deviations>>

\* get_usb_info after its header: lsusb, display and store.
store_usb ==
    /\ pc = "store_usb"
    /\ \E o \in Choices(usb_nominal, usb_alt) :
         Effect(checked_calls("lsusb", lsusb_cmd, o.which, o.run), FALSE,
                Cost(o, usb_nominal), "",
                Return("get_usb_info", "usb", usb_info(o), usb_lines(o)))

(***************************************************************************)
(* Probe 10: get_power_info.                                               *)
(***************************************************************************)
get_power_info ==
    /\ pc = "get_power_info"
    /\ stdout' = stdout \o print_section("POWER INFORMATION")
    /\ pc' = "get_battery_info"
    /\ info' = EmptyDict
    /\ UNCHANGED <<flags, data, aux, environ, calls, returned, raised, exit_code,
                   deviations>>

\* Path.glob(pattern): the names that match, in the order the directory
\* lists them.
glob(path, pattern, o) ==
    [op |-> "glob", arg |-> path \o "/" \o pattern, tools |-> {}, cause |-> "ok",
     ret |-> o.out]

battery_attributes == <<"capacity", "status", "technology", "manufacturer">>

battery_nominal ==
    [exists |-> Ok(""), glob |-> Ok(<<"BAT0">>), capacity |-> Ok("85"),
     status |-> Ok("Discharging"), technology |-> Ok("Li-ion"), manufacturer |-> Ok("LGC")]

battery_alt ==
    [exists |-> {Gone("absent")},
     glob |-> {Ok(<<>>), Ok(<<"BAT0", "BAT1">>)},
     capacity |-> {Gone("IOError"), Ok("")} \cup StuckS,
     status |-> {Gone("IOError")},
     technology |-> {Gone("IOError")},
     manufacturer |-> {Ok("")}]

supply == "/sys/class/power_supply"

batteries(o) == IF o.exists.cause = "ok" THEN o.glob.out ELSE <<>>

battery_reads(o, battery_name) ==
    [i \in DOMAIN battery_attributes |->
        safe_read_file(supply \o "/" \o battery_name \o "/" \o battery_attributes[i],
                       o[battery_attributes[i]])]

RECURSIVE battery_calls(_, _)
battery_calls(o, names) ==
    IF Len(names) = 0 THEN <<>>
    ELSE battery_reads(o, Head(names)) \o battery_calls(o, Tail(names))

battery_keys ==
    <<[k |-> "capacity", v |-> "capacity_percent"], [k |-> "status", v |-> "status"],
      [k |-> "technology", v |-> "technology"], [k |-> "manufacturer", v |-> "manufacturer"]>>

battery_prefix(battery_name, battery_count) ==
    IF battery_count = 1 THEN lower(battery_name) \o "_"
    ELSE lower(battery_name) \o "_" \o ToText(battery_count) \o "_"

RECURSIVE battery_fields(_, _, _, _)
battery_fields(o, names, battery_count, d) ==
    IF battery_count > Len(names) THEN d
    ELSE LET reads == battery_reads(o, names[battery_count])
             got == SelectSeq([i \in DOMAIN reads |->
                                  [k |-> battery_prefix(names[battery_count], battery_count)
                                         \o Get(battery_keys, battery_attributes[i]),
                                   v |-> reads[i].ret]],
                              LAMBDA e : Truthy(e.v))
         IN  battery_fields(o, names, battery_count + 1, Update(d, got))

\* get_battery_info without its battery_count == 0 branch.
battery_info_silent(o) == battery_fields(o, batteries(o), 1, EmptyDict)

battery_info(o) ==
    LET found == battery_fields(o, batteries(o), 1, EmptyDict)
    IN  IF Len(batteries(o)) = 0
        THEN Put(found, "battery_status", "No battery detected (Desktop system)")
        ELSE found

get_battery_info ==
    /\ pc = "get_battery_info"
    /\ \E o \in Choices(battery_nominal, battery_alt) :
         Effect(<<path_exists(supply, o.exists)>>
                \o (IF o.exists.cause = "ok" THEN <<glob(supply, "BAT*", o.glob)>> ELSE <<>>)
                \o battery_calls(o, batteries(o)),
                FALSE, Cost(o, battery_nominal), "",
                Goto("get_ac_adapter_info",
                     IF Len(battery_info(o)) > 0 THEN Update(info, battery_info(o)) ELSE info))

adapter_nominal == [exists |-> Ok(""), glob |-> Ok(<<"AC">>), online |-> Ok("1")]

adapter_alt ==
    [exists |-> {Gone("absent")},
     glob |-> {Ok(<<>>), Ok(<<"ADP1">>)},
     online |-> {Ok("0"), Ok(""), Gone("IOError")} \cup StuckS]

adapters(o) == IF o.exists.cause = "ok" THEN o.glob.out ELSE <<>>

adapter_reads(o) ==
    [i \in DOMAIN adapters(o) |->
        safe_read_file(supply \o "/" \o adapters(o)[i] \o "/online", o.online)]

ac_adapter_info(o) ==
    LET online == SelectSeq([i \in DOMAIN adapters(o) |->
                                [k |-> lower(adapters(o)[i]) \o "_status",
                                 v |-> adapter_reads(o)[i].ret]],
                            LAMBDA e : Truthy(e.v))
    IN  Update(EmptyDict,
               [i \in DOMAIN online |->
                   [k |-> online[i].k,
                    v |-> IF online[i].v = "1" THEN "Connected" ELSE "Disconnected"]])

get_ac_adapter_info ==
    /\ pc = "get_ac_adapter_info"
    /\ \E o \in Choices(adapter_nominal, adapter_alt) :
         Effect(<<path_exists(supply, o.exists)>>
                \o (IF o.exists.cause = "ok" THEN <<glob(supply, "A[CD]*", o.glob)>>
                    ELSE <<>>)
                \o adapter_reads(o),
                FALSE, Cost(o, adapter_nominal), "",
                Goto("store_power",
                     IF Len(ac_adapter_info(o)) > 0 THEN Update(info, ac_adapter_info(o))
                     ELSE info))

store_power ==
    /\ pc = "store_power"
    /\ Return("get_power_info", "power", info,
              IF Len(info) > 0 THEN print_items(info)
              ELSE print_info("Power Information", "No power devices detected"))
    /\ UNCHANGED <<calls, deviations>>

(***************************************************************************)
(* Probe 11: get_temperature_info.                                         *)
(***************************************************************************)
get_temperature_info ==
    /\ pc = "get_temperature_info"
    /\ stdout' = stdout \o print_section("TEMPERATURE INFORMATION")
    /\ pc' = "store_temperature"
    /\ info' = EmptyDict
    /\ UNCHANGED <<flags, data, aux, environ, calls, returned, raised, exit_code,
                   deviations>>

sensors_cmd == Sh("sensors 2>/dev/null", "sensors", {"sensors"}, "none", TRUE)

\* A line of sensors: whether it contains ':', its stripped text (or, with
\* a ':', the stripped text before the first one), whether it starts with
\* a blank, and the first signed decimal followed by a degree sign and C
\* or F (None when there is none; then `degree` says whether the line
\* contains a degree sign with C or F at all).
SensorLine(colon, text, indented, degree, reading) ==
    [colon |-> colon, text |-> text, indented |-> indented, degree |-> degree,
     reading |-> reading]

sensors_output ==
    <<SensorLine(FALSE, "coretemp-isa-0000", FALSE, FALSE, None),
      SensorLine(TRUE, "Adapter", FALSE, FALSE, None),
      SensorLine(TRUE, "Package id 0", FALSE, TRUE, "+45.0°C"),
      SensorLine(FALSE, "", FALSE, FALSE, None)>>

\* The reference host has no lm-sensors: `which sensors` fails.
temperature_nominal ==
    [which |-> Not("fail"), run |-> Ok(sensors_output), exists |-> Ok(""),
     glob |-> Ok(<<"thermal_zone0">>), temp |-> Ok("45000")]

temperature_alt ==
    [which |-> {Ok(<<>>), Not("missing")} \cup Stuck,
     run |-> RunAlt,
     exists |-> {Gone("absent")},
     glob |-> {Ok(<<>>), Ok(<<"thermal_zone0", "thermal_zone1">>)},
     temp |-> {Gone("IOError"), Ok("-5000"), Ok("38999")} \cup StuckS]

\* The rows the loop over the lines of sensors appends.
RECURSIVE sensor_rows(_, _)
sensor_rows(lines, current_device) ==
    IF Len(lines) = 0 THEN <<>>
    ELSE LET line == Head(lines)
         IN  IF ~line.colon /\ line.text # "" /\ ~line.indented
             THEN sensor_rows(Tail(lines), line.text)
             ELSE IF line.degree /\ line.reading # None
             THEN <<<<current_device, IF line.colon THEN line.text ELSE "Temperature",
                      line.reading>>>>
                  \o sensor_rows(Tail(lines), current_device)
             ELSE sensor_rows(Tail(lines), current_device)

thermal == "/sys/class/thermal"

zones(o) == IF o.exists.cause = "ok" THEN o.glob.out ELSE <<>>

zone_reads(o) ==
    [i \in DOMAIN zones(o) |-> safe_read_file(thermal \o "/" \o zones(o)[i] \o "/temp", o.temp)]

\* thermal_zones: zone name to f'{int(temp_raw) // 1000}°C'
thermal_zones(o) ==
    LET read == SelectSeq([i \in DOMAIN zones(o) |->
                              [k |-> zones(o)[i], v |-> zone_reads(o)[i].ret]],
                          LAMBDA e : Truthy(e.v) /\ isdigit(e.v))
    IN  [i \in DOMAIN read |->
            [k |-> read[i].k, v |-> ToText(ToInt(read[i].v) \div 1000) \o "°C"]]

temperature_calls(o) ==
    checked_calls("sensors", sensors_cmd, o.which, o.run)
    \o <<path_exists(thermal, o.exists)>>
    \o (IF o.exists.cause = "ok" THEN <<glob(thermal, "thermal_zone*", o.glob)>> ELSE <<>>)
    \o zone_reads(o)

temp_rows(o) ==
    LET r == checked_ret("sensors", sensors_cmd, o.which, o.run)
    IN  (IF Usable(r) THEN sensor_rows(r.stdout, "Unknown") ELSE <<>>)
        \o [i \in DOMAIN thermal_zones(o) |->
               <<"Thermal Zone", thermal_zones(o)[i].k, thermal_zones(o)[i].v>>]

temperature_info(o) ==
    LET r == checked_ret("sensors", sensors_cmd, o.which, o.run)
    IN  (IF Usable(r) /\ Len(sensor_rows(r.stdout, "Unknown")) > 0
         THEN <<[k |-> "sensors_available", v |-> TRUE]>> ELSE <<>>)
        \o (IF Len(thermal_zones(o)) > 0
            THEN <<[k |-> "thermal_zones_count", v |-> Len(thermal_zones(o))]>> ELSE <<>>)
        \o (IF Len(temp_rows(o)) = 0
            THEN <<[k |-> "temperature_sensors", v |-> "No sensors available"]>> ELSE <<>>)

\* get_temperature_info after its header: sensors, thermal zones, display
\* and store.
store_temperature ==
    /\ pc = "store_temperature"
    /\ \E o \in Choices(temperature_nominal, temperature_alt) :
         Effect(temperature_calls(o), FALSE, Cost(o, temperature_nominal), "",
                Return("get_temperature_info", "temperature", temperature_info(o),
                       IF Len(temp_rows(o)) = 0
                       THEN print_info("Temperature Sensors", "No sensors available")
                       ELSE print_table(<<"Source", "Sensor", "Temperature">>, temp_rows(o),
                                        "Temperature Readings")))


\* The program's steps: every action but the user's.
Step ==
    \/ run_all_checks
    \/ get_system_info \/ get_boot_time \/ get_linux_distro_info \/ get_boot_mode
    \/ store_system
    \/ get_hardware_info \/ get_dmi_info \/ get_chassis_info \/ store_hardware
    \/ get_cpu_info \/ get_linux_cpu_info \/ get_cpu_frequency \/ get_cpu_usage
    \/ store_cpu
    \/ get_memory_info \/ get_linux_memory_info \/ get_memory_hardware_info
    \/ store_memory
    \/ get_graphics_info \/ get_gpu_hardware \/ get_display_server_info
    \/ detect_wayland_compositor \/ detect_x11_window_manager \/ get_graphics_drivers
    \/ get_opengl_info \/ get_vulkan_info \/ store_graphics
    \/ get_audio_info \/ get_audio_hardware \/ get_audio_system_info \/ store_audio
    \/ get_network_info \/ get_network_interfaces \/ get_network_hardware
    \/ test_connectivity \/ store_network
    \/ get_storage_info \/ get_block_devices \/ get_filesystem_usage
    \/ get_disk_health \/ store_storage \/ get_usb_info \/ store_usb
    \/ get_power_info \/ get_battery_info \/ get_ac_adapter_info \/ store_power
    \/ get_temperature_info \/ store_temperature
    \/ generate_output \/ except_KeyboardInterrupt \/ except_Exception

Next == Step \/ UserInterrupt

Spec == Init /\ [][Next]_vars

\* The interpreter keeps running the program while it has a step to take;
\* nothing obliges the user to press the interrupt key.
FairSpec == Spec /\ WF_vars(Step)

(***************************************************************************)
(* run_command on its own: one call on a fresh object, over the commands   *)
(* the program runs, each as the str it passes and as the argument list of *)
(* its first stage, with and without shell, under every outcome.           *)
(***************************************************************************)
ProgramCommands ==
    {dmidecode_cmd, lspci_cmd("audio\\|sound"), pgrep_cmd("sway"), glxinfo_cmd,
     vulkaninfo_cmd, aplay_cmd, pactl_cmd, pw_cli_cmd, ip_link_cmd, ip_addr_cmd("eth0"),
     ping_cmd("8.8.8.8"), lsblk_cmd, df_cmd, ls_cmd("/dev/sd?"), smartctl_cmd("/dev/sda"),
     lsusb_cmd, sensors_cmd}

ArgvCommands == {Argv(command.text, command.first) : command \in ProgramCommands}

ExecOutcomes ==
    {Ok(<<"line">>), Ok(<<>>), Not("fail"), Not("missing"), Not("hang"),
     Not("KeyboardInterrupt")}

call_run_command ==
    /\ calls = <<>>
    /\ \E command \in ProgramCommands \cup ArgvCommands, shell \in BOOLEAN,
          o \in ExecOutcomes :
         /\ calls' = <<run_command(command, shell, o)>>
         /\ raised' = IF o.cause = "KeyboardInterrupt" THEN "KeyboardInterrupt" ELSE raised
    /\ UNCHANGED <<flags, data, pc, info, aux, environ, stdout, returned, exit_code,
                   deviations>>

ExecNext == call_run_command

ExecSpec == Init /\ [][ExecNext]_vars

(***************************************************************************)
(* The JSON renderer on its own: generate_json_output called up to         *)
(* MaxRenders times on one object whose report is any of Reports and is    *)
(* left as it is, the clock reading later each time.                       *)
(***************************************************************************)
MaxRenders == 2

\* Reports of a run's first sections, with a few values of their fields.
Reports ==
    {EmptyDict}
    \cup {<<[k |-> "system", v |-> <<[k |-> "hostname", v |-> h]>>]>> : h \in {"alpha", "beta"}}
    \cup {<<[k |-> "system", v |-> <<[k |-> "hostname", v |-> h]>>],
            [k |-> "hardware", v |-> c]>> :
              h \in {"alpha", "beta"},
              c \in {EmptyDict, <<[k |-> "chassis_type", v |-> "Desktop"]>>}}

RenderInit ==
    /\ verbose \in BOOLEAN
    /\ brief \in BOOLEAN
    /\ output_json = TRUE
    /\ data \in Reports
    /\ pc = "generate_json_output"
    /\ info = EmptyDict
    /\ aux = EmptyDict
    /\ environ = EmptyDict
    /\ stdout = <<>>
    /\ calls = <<>>
    /\ returned = <<>>
    /\ raised = ""
    /\ exit_code = -1
    /\ deviations = 0

\* One more call of generate_json_output, at a reading later than that of
\* every document written before.
call_generate_json_output ==
    /\ pc = "generate_json_output"
    /\ Len(stdout) < MaxRenders
    /\ \E now \in Clock :
          /\ \A i \in DOMAIN stdout, m \in Clock :
                Get(stdout[i].doc, "generated_at") = isoformat(m) => m < now
          /\ stdout' = stdout \o generate_json_output(now)
    /\ UNCHANGED <<flags, data, pc, info, aux, environ, calls, returned, raised, exit_code,
                   deviations>>

RenderNext == call_generate_json_output

RenderSpec == RenderInit /\ [][RenderNext]_vars

(***************************************************************************)
(* Two runs on one host: a console run to its exit, then the program run   *)
(* again with --json and the same -v/-b flags, every external source       *)
(* answering as it did the first time.  The first run's report and         *)
(* environment are kept in the log entry that starts the second run.       *)
(***************************************************************************)
TwoRunInit == Init /\ ~output_json

\* The second run has started: its log begins with the first run's record.
Again == Len(calls) > 0 /\ calls[1].op = "run_again"

FirstRun == calls[1].ret

\* The process has exited; the same command line is run with --json added.
run_again ==
    /\ pc = "exit"
    /\ ~Again
    /\ calls' = <<[op |-> "run_again", arg |-> "--json", tools |-> {}, cause |-> "ok",
                   ret |-> [calls |-> calls, data |-> data, environ |-> environ,
                            returned |-> returned, exit_code |-> exit_code]]>>
    /\ output_json' = TRUE
    /\ data' = EmptyDict
    /\ pc' = "run_all_checks"
    /\ info' = EmptyDict
    /\ aux' = EmptyDict
    /\ environ' = EmptyDict
    /\ stdout' = <<>>
    /\ returned' = <<>>
    /\ raised' = ""
    /\ exit_code' = -1
    /\ deviations' = 0
    /\ UNCHANGED <<verbose, brief>>

\* The host answers the second run as it answered the first: a call the
\* first run made at the same place in its sequence gets the same answer,
\* the user's interrupt comes at the same point or not at all, and the
\* environment variables read are the same.
SameResponses ==
    Again =>
        LET first == FirstRun.calls
        IN  /\ \A i \in 1..(Len(calls) - 1) :
                  /\ (/\ i <= Len(first)
                      /\ calls[i + 1].op = first[i].op
                      /\ calls[i + 1].arg = first[i].arg) => calls[i + 1] = first[i]
                  /\ (calls[i + 1].op = "SIGINT" \/ (i <= Len(first) /\ first[i].op = "SIGINT"))
                        => (i <= Len(first) /\ calls[i + 1] = first[i])
            /\ environ \in {EmptyDict, FirstRun.environ}

\* The first run was interrupted at this point of the program.
InterruptDue ==
    /\ Again
    /\ Len(calls) <= Len(FirstRun.calls)
    /\ FirstRun.calls[Len(calls)].op = "SIGINT"
    /\ FirstRun.calls[Len(calls)].arg = pc

TwoRunNext ==
    \/ (IF InterruptDue THEN UserInterrupt ELSE Next) /\ SameResponses'
    \/ run_again

TwoRunSpec == TwoRunInit /\ [][TwoRunNext]_vars

(***************************************************************************)
(* Two runs on one host: a run without --brief through all its probes to   *)
(* exit code 0, then the program run again with --brief added, every       *)
(* external source answering as it did the first time.  A run started with *)
(* --brief is run once.                                                    *)
(***************************************************************************)
\* The calls of the sub-probes that --brief leaves out.
Gated(call) ==
    \/ call.op = "command_exists" /\ call.arg \in {"glxinfo", "vulkaninfo"}
    \/ call.op = "run_command" /\ call.first \in {"glxinfo", "vulkaninfo", "ping"}

Ungated(log) == SelectSeq(log, LAMBDA call : ~Gated(call))

\* The first run's record also keeps its calls outside the gated sub-probes.
run_again_brief ==
    /\ pc = "exit"
    /\ exit_code = 0
    /\ ~brief
    /\ ~Again
    /\ calls' = <<[op |-> "run_again", arg |-> "--brief", tools |-> {}, cause |-> "ok",
                   ret |-> [calls |-> calls, data |-> data, environ |-> environ,
                            returned |-> returned, exit_code |-> exit_code,
                            ungated |-> Ungated(calls)]]>>
    /\ brief' = TRUE
    /\ data' = EmptyDict
    /\ pc' = "run_all_checks"
    /\ info' = EmptyDict
    /\ aux' = EmptyDict
    /\ environ' = EmptyDict
    /\ stdout' = <<>>
    /\ returned' = <<>>
    /\ raised' = ""
    /\ exit_code' = -1
    /\ deviations' = 0
    /\ UNCHANGED <<verbose, output_json>>

\* The host answers the second run as it answered the first: the n-th call
\* the second run makes gets the answer of the n-th call of the first run
\* outside the gated sub-probes when that was the same call, and the
\* environment variables read are the same.
SameHost ==
    LET first == FirstRun.ungated
    IN  /\ \A i \in Len(calls)..(Len(calls') - 1) :
              (/\ i <= Len(first)
               /\ calls'[i + 1].op = first[i].op
               /\ calls'[i + 1].arg = first[i].arg) => calls'[i + 1] = first[i]
        /\ environ' \in {EmptyDict, FirstRun.environ}

BriefNext ==
    \/ ~Again /\ Next
    \/ Again /\ Step /\ SameHost
    \/ run_again_brief

BriefSpec == Init /\ [][BriefNext]_vars

(***************************************************************************)
(* get_display_server_info on its own, with its detectors: called once in  *)
(* every environment the three variables can make, the process scan        *)
(* answering in any of its ways.                                           *)
(***************************************************************************)
MaxSession == 4

DisplayInit ==
    /\ verbose = FALSE
    /\ brief = FALSE
    /\ output_json \in BOOLEAN
    /\ data = EmptyDict
    /\ pc = "get_display_server_info"
    /\ info = EmptyDict
    /\ aux = EmptyDict
    /\ environ = EmptyDict
    /\ stdout = <<>>
    /\ calls = <<>>
    /\ returned = <<>>
    /\ raised = ""
    /\ exit_code = -1
    /\ deviations = MaxDeviations - MaxSession

DisplayNext ==
    \/ get_display_server_info
    \/ detect_wayland_compositor
    \/ detect_x11_window_manager

DisplaySpec == DisplayInit /\ [][DisplayNext]_vars

(***************************************************************************)
(* get_battery_info on its own: called once on a power-supply directory    *)
(* that lists up to MaxBatteries distinct entries matching BAT*, in any     *)
(* order, the attribute files reading as on the reference host or one of   *)
(* them otherwise.  aux holds the listing.                                 *)
(***************************************************************************)
MaxBatteries == 3

BatteryNames == {"BAT0", "BAT1", "BATC", "BAT0_2", "BATTERY"}

\* The sequences of up to n distinct names.
RECURSIVE Listings(_)
Listings(n) ==
    IF n = 0 THEN {<<>>}
    ELSE LET shorter == Listings(n - 1)
         IN  shorter \cup {Append(names, b) : names \in shorter, b \in BatteryNames}

DistinctListings ==
    {names \in Listings(MaxBatteries) :
        \A i \in DOMAIN names : \A j \in DOMAIN names : i # j => names[i] # names[j]}

BatteryInit ==
    /\ verbose = FALSE
    /\ brief = FALSE
    /\ output_json = FALSE
    /\ data = EmptyDict
    /\ pc = "get_battery_info"
    /\ info = EmptyDict
    /\ aux \in DistinctListings
    /\ environ = EmptyDict
    /\ stdout = <<>>
    /\ calls = <<>>
    /\ returned = <<>>
    /\ raised = ""
    /\ exit_code = -1
    /\ deviations = 0

call_get_battery_info ==
    /\ pc = "get_battery_info"
    /\ \E a \in Within(battery_nominal, battery_alt, 1) :
         LET o == [a EXCEPT !.exists = Ok(""), !.glob = Ok(aux)]
         IN  Effect(<<path_exists(supply, o.exists), glob(supply, "BAT*", o.glob)>>
                    \o battery_calls(o, batteries(o)),
                    FALSE, 0, "", Goto("return", battery_info(o)))

BatteryNext == call_get_battery_info

BatterySpec == BatteryInit /\ [][BatteryNext]_vars

(***************************************************************************)
(* print_table on its own, in console and in JSON mode: called once with   *)
(* the headers and the title of one of the program's tables and with up to *)
(* MaxRows rows of cells of assorted lengths.  aux holds the arguments.    *)
(***************************************************************************)
MaxRows == 2

\* The lengths of the cells: empty, short, and around the 28 characters a
\* column of the widest kind leaves to a cell.
CellLengths == {0, 15, 28, 29, 40}

Tables ==
    {[headers |-> <<"Device", "Health Status">>, title |-> "Disk Health (SMART)"],
     [headers |-> <<"Source", "Sensor", "Temperature">>, title |-> "Temperature Readings"]}

\* The lists of up to n rows of `width` cells each.
RECURSIVE RowLists(_, _)
RowLists(width, n) ==
    IF n = 0 THEN {<<>>}
    ELSE LET shorter == RowLists(width, n - 1)
         IN  shorter \cup {Append(rows, [c \in 1..width |-> Repeat("x", length[c])]) :
                              rows \in shorter, length \in [1..width -> CellLengths]}

TableInit ==
    /\ verbose = FALSE
    /\ brief = FALSE
    /\ output_json \in BOOLEAN
    /\ data = EmptyDict
    /\ pc = "print_table"
    /\ info = EmptyDict
    /\ \E t \in Tables :
          \E rows \in RowLists(Len(t.headers), MaxRows) :
              aux = [headers |-> t.headers, rows |-> rows, title |-> t.title]
    /\ environ = EmptyDict
    /\ stdout = <<>>
    /\ calls = <<>>
    /\ returned = <<>>
    /\ raised = ""
    /\ exit_code = -1
    /\ deviations = 0

call_print_table ==
    /\ pc = "print_table"
    /\ stdout' = print_table(aux.headers, aux.rows, aux.title)
    /\ pc' = "return"
    /\ UNCHANGED <<flags, data, info, aux, environ, calls, returned, raised, exit_code,
                   deviations>>

TableNext == call_print_table

TableSpec == TableInit /\ [][TableNext]_vars

(***************************************************************************)
(* get_linux_memory_info on its own, over /proc/meminfo contents with      *)
(* MemTotal = T > 0 and 0 <= MemAvailable <= T, with and without the swap  *)
(* lines.                                                                  *)
(***************************************************************************)
MemTotals == {1, 80, 2000, 1048576, 16000000}

MemAvailables(T) == {A \in {0, 1, 29, 1999, 524288, 8000000, T} : A <= T}

SwapLines ==
    {<<>>,
     << <<"SwapTotal", 2097152>> >>,
     << <<"SwapTotal", 2097152>>, <<"SwapFree", 1048576>> >>,
     << <<"SwapTotal", 0>>, <<"SwapFree", 0>> >>,
     << <<"SwapTotal", 4194304>>, <<"SwapFree", 4063232>> >>}

MemInit ==
    /\ verbose = FALSE
    /\ brief = FALSE
    /\ pc = "get_linux_memory_info"
    /\ output_json \in BOOLEAN
    /\ data = EmptyDict
    /\ info = EmptyDict
    /\ \E T \in MemTotals : \E A \in MemAvailables(T) : \E swap \in SwapLines :
          aux = << <<"MemTotal", T>>, <<"MemFree", 0>>, <<"MemAvailable", A>> >> \o swap
    /\ environ = EmptyDict
    /\ stdout = <<>>
    /\ calls = <<>>
    /\ returned = <<>>
    /\ raised = ""
    /\ exit_code = -1
    /\ deviations = 0

call_get_linux_memory_info ==
    /\ pc = "get_linux_memory_info"
    /\ \E up \in usage_ties([meminfo |-> Ok(aux)]) :
          info' = linux_memory_info([meminfo |-> Ok(aux)], up)
    /\ pc' = "return"
    /\ UNCHANGED <<flags, data, aux, environ, stdout, calls, returned, raised, exit_code,
                   deviations>>

MemNext == call_get_linux_memory_info

MemSpec == MemInit /\ [][MemNext]_vars

(***************************************************************************)
(* kb_to_gb and bytes_to_gb on their own: each is called on two arguments  *)
(* in turn, ints in ascending order or anything else a caller can pass.    *)
(***************************************************************************)
Ints ==
    {0, 1, 5242, 5243, 131072, 393216, 1048576, 5368709, 5368710, 134217728,
     402653184, 1073741824, 2000000000}

Arguments ==
    {PyInt(n) : n \in Ints}
    \cup {PyNone, PyStr(""), PyStr("abc"), PyStr("12.5"), PyStr("2048"),
          PyFloat("finite", 20487), PyFloat("inf", 0), PyFloat("nan", 0)}

ConvInit ==
    /\ verbose = FALSE
    /\ brief = FALSE
    /\ output_json = FALSE
    /\ data = EmptyDict
    /\ pc \in {"kb_to_gb", "bytes_to_gb"}
    /\ info = <<>>
    /\ \E x \in Arguments : \E y \in Arguments :
          /\ (x.type = "int" /\ y.type = "int") => x.value <= y.value
          /\ aux = [f |-> pc, args |-> <<x, y>>]
    /\ environ = EmptyDict
    /\ stdout = <<>>
    /\ calls = <<>>
    /\ returned = <<>>
    /\ raised = ""
    /\ exit_code = -1
    /\ deviations = 0

\* One call of a conversion on the next argument: its result is kept in info,
\* an exception it lets through ends the calls.
Convert(x, gb) ==
    /\ IF int_raises(x) = "" \/ caught(int_raises(x))
       THEN /\ info' = Append(info, IF int_raises(x) = "" THEN gb ELSE Float(0, 2))
            /\ pc' = IF Len(info) + 1 = Len(aux.args) THEN "return" ELSE pc
            /\ UNCHANGED raised
       ELSE /\ raised' = int_raises(x)
            /\ pc' = "except_Exception"
            /\ UNCHANGED info
    /\ UNCHANGED <<flags, data, aux, environ, stdout, calls, returned, exit_code,
                   deviations>>

call_kb_to_gb ==
    /\ pc = "kb_to_gb"
    /\ LET kb_val == aux.args[Len(info) + 1]
       IN  Convert(kb_val, kb_to_gb(int_of(kb_val)))

call_bytes_to_gb ==
    /\ pc = "bytes_to_gb"
    /\ LET bytes_val == aux.args[Len(info) + 1]
       IN  Convert(bytes_val, bytes_to_gb(int_of(bytes_val)))

ConvNext == call_kb_to_gb \/ call_bytes_to_gb

ConvSpec == ConvInit /\ [][ConvNext]_vars

(***************************************************************************)
(* Runs on hosts that lack tools: up to MaxAbsent of the `which` lookups   *)
(* of a run answer that the tool is not there, and every other source      *)
(* answers as on the reference host.                                       *)
(***************************************************************************)
MaxAbsent == 2

\* The lookups that answered "not there", and those of them that answer
\* otherwise on the reference host (which has no sensors).
FailedLookups ==
    {i \in DOMAIN calls :
        calls[i].op = "command_exists" /\ calls[i].cause \in {"fail", "missing"}}

AbsentLookups ==
    {i \in FailedLookups :
        ~(calls[i].arg = "sensors" /\ calls[i].cause = temperature_nominal.which.cause)}

AbsentTools == {calls[i].arg : i \in FailedLookups}

AbsentInit ==
    /\ verbose \in BOOLEAN
    /\ brief \in BOOLEAN
    /\ output_json \in BOOLEAN
    /\ data = EmptyDict
    /\ pc = "run_all_checks"
    /\ info = EmptyDict
    /\ aux = EmptyDict
    /\ environ = EmptyDict
    /\ stdout = <<>>
    /\ calls = <<>>
    /\ returned = <<>>
    /\ raised = ""
    /\ exit_code = -1
    /\ deviations = MaxDeviations - MaxAbsent

\* Every departure from the reference host so far is a failed lookup.
OnlyAbsent == deviations - (MaxDeviations - MaxAbsent) = Cardinality(AbsentLookups)

AbsentNext == Step /\ OnlyAbsent'

AbsentSpec == AbsentInit /\ [][AbsentNext]_vars

(***************************************************************************)
(* The claims.                                                             *)
(***************************************************************************)

\* A KeyboardInterrupt was raised somewhere in the run.
Interrupted == \E i \in DOMAIN calls : calls[i].cause = "KeyboardInterrupt"

\* C1 (as claimed): whatever an external source answers, the probe that
\* uses it returns and stores its section, and no exception of the probe's
\* own code reaches run_all_checks: the only thing its except clauses ever
\* see is the user's interrupt.
C1_FailureIsolation == pc # "except_Exception" /\ raised \in {"", "KeyboardInterrupt"}

\* C3 (as claimed): a run ends with exit code 0 exactly when all eleven
\* probes returned and no interrupt and no failure happened; an interrupt
\* raised anywhere, the read of /proc/uptime included, ends it with 1.
C3_ExitCodeMapping ==
    pc = "exit" =>
        /\ exit_code = 0 <=> (Len(returned) = Len(ProbeOrder) /\ ~Interrupted /\ raised = "")
        /\ Interrupted => exit_code = 1

\* C5 (as claimed): every external call is bounded by the executor's
\* timeout, so a run in which some call hangs still finishes: it always
\* reaches its exit.
C5_BoundedBlocking == <>(pc = "exit")

\* A line that shows a part of a section: its header, a field, a table.
SectionContent(line) ==
    line.kind \in {"section", "info", "title", "header", "separator", "row"}

\* The section headers written so far.
Headers == SelectSeq(stdout, LAMBDA line : line.kind = "section")

SectionTitles ==
    <<"SYSTEM INFORMATION", "HARDWARE INFORMATION", "CPU INFORMATION",
      "MEMORY INFORMATION", "GRAPHICS INFORMATION", "AUDIO INFORMATION",
      "NETWORK INFORMATION", "STORAGE INFORMATION", "USB INFORMATION",
      "POWER INFORMATION", "TEMPERATURE INFORMATION">>

\* C2 (as claimed): in both modes, a run that an interrupt or a failure
\* ends after fewer than eleven probes has written no section content to
\* stdout.
C2_AllOrNothing ==
    (raised # "" /\ Len(returned) < Len(ProbeOrder)) =>
        \A i \in DOMAIN stdout : ~SectionContent(stdout[i])

\* C2 (amended): in JSON mode stdout never holds section content, and the
\* JSON document is its only line, written once all eleven probes have
\* returned and holding the sections gathered; in console mode every probe
\* that has returned has written its section header, in the probes' order.
C2_OutputUnits ==
    /\ output_json =>
          /\ \A i \in DOMAIN stdout : ~SectionContent(stdout[i])
          /\ \A i \in DOMAIN stdout :
                stdout[i].kind = "json" =>
                    /\ i = 1 /\ Len(stdout) = 1
                    /\ pc = "exit" /\ exit_code = 0
                    /\ Len(returned) = Len(ProbeOrder)
                    /\ stdout[i].doc[1].v = data
    /\ ~output_json =>
          /\ Len(Headers) >= Len(returned)
          /\ \A k \in DOMAIN returned : Headers[k].text = SectionTitles[k]

\* A console run that ended early with the sections of the probes that had
\* run already on stdout.
C2_Witness ==
    /\ ~output_json /\ pc = "exit" /\ raised # ""
    /\ Len(returned) > 0 /\ Len(returned) < Len(ProbeOrder)
    /\ Len(Headers) >= Len(returned)
    /\ \E i \in DOMAIN stdout : stdout[i].kind = "info"

\* C4 (as claimed): the interrupt handler never takes effect inside a
\* blocking call of run_command, and a run it ends has written nothing to
\* stdout: no message and no part of the report.
C4_BetweenProbesAndSilent ==
    raised = "KeyboardInterrupt" =>
        /\ calls[Len(calls)].op # "run_command"
        /\ pc = "exit" => stdout = <<>>

\* C4 (amended): an interrupt raised in any call other than get_boot_time's
\* read of /proc/uptime, a blocking call of run_command included, ends the
\* probe pass there and reaches the handler; the run the handler ends has
\* the line "Script interrupted by user." as its last output, no footer
\* and no JSON document, exit code 1, and in JSON mode nothing else.
C4_InterruptHandler ==
    /\ \A i \in DOMAIN calls :
          (calls[i].cause = "KeyboardInterrupt"
           /\ ~(calls[i].op = "open" /\ calls[i].arg = "/proc/uptime")) =>
              /\ i = Len(calls)
              /\ raised = "KeyboardInterrupt"
              /\ pc \in {"except_KeyboardInterrupt", "exit"}
    /\ (pc = "exit" /\ raised = "KeyboardInterrupt") =>
          /\ exit_code = 1
          /\ stdout[Len(stdout)].kind = "interrupted"
          /\ stdout[Len(stdout)].text = "Script interrupted by user."
          /\ \A i \in DOMAIN stdout : stdout[i].kind \notin {"footer", "json"}
          /\ output_json => Len(stdout) = 1

\* A run interrupted while run_command was blocked in a command.
C4_Witness ==
    /\ pc = "exit" /\ raised = "KeyboardInterrupt"
    /\ calls[Len(calls)].op = "run_command"
    /\ calls[Len(calls)].cause = "KeyboardInterrupt"
    /\ stdout[Len(stdout)].kind = "interrupted"

\* The command was started: through the shell, or as a file of that name.
Started(call) == call.shell \/ ~call.isstr \/ call.arg = call.first

\* The file to execute does not exist.
NoExecutable(call) == call.cause = "missing" \/ ~Started(call)

\* C6 (as claimed): run_command lets no failure of the command out as an
\* exception, and when the command times out or its executable does not
\* exist, in either invocation form, it returns empty stdout, a non-empty
\* stderr ("Command timed out" on timeout) and a nonzero exit code.
C6_ResultEnvelope ==
    /\ raised \in {"", "KeyboardInterrupt"}
    /\ \A i \in DOMAIN calls :
          calls[i].op = "run_command" =>
              /\ (calls[i].cause = "hang" \/ NoExecutable(calls[i])) =>
                    /\ calls[i].ret.stdout = <<>>
                    /\ calls[i].ret.stderr # ""
                    /\ calls[i].ret.returncode # 0
              /\ (calls[i].cause = "hang" /\ Started(calls[i])) =>
                    calls[i].ret.stderr = "Command timed out"

\* C6 (amended): only a KeyboardInterrupt leaves run_command; a command
\* that times out returns ("", "Command timed out", 1); a missing
\* executable returns ("", text, 1) without a shell and, through the
\* shell, the result of the pipeline's last stage: ("", text, 127) for a
\* single command, status 1 after grep, status 0 after head or wc (wc -l
\* printing 0), the text being empty when stderr is redirected.
C6_Envelope ==
    /\ raised # "" => calls[Len(calls)].cause = "KeyboardInterrupt"
    /\ \A i \in DOMAIN calls :
          (calls[i].op = "run_command" /\ calls[i].cause # "KeyboardInterrupt") =>
              LET call == calls[i]
                  ret == calls[i].ret
              IN  /\ (call.cause = "hang" /\ Started(call)) =>
                        ret = [stdout |-> <<>>, stderr |-> "Command timed out",
                               returncode |-> 1]
                  /\ (NoExecutable(call) /\ ~call.shell) =>
                        ret.stdout = <<>> /\ ret.stderr # "" /\ ret.returncode = 1
                  /\ (call.cause = "missing" /\ call.shell) =>
                        /\ ret.stderr = "" <=> call.quiet
                        /\ call.tail = "none" => ret.stdout = <<>> /\ ret.returncode = 127
                        /\ call.tail = "grep" => ret.stdout = <<>> /\ ret.returncode = 1
                        /\ call.tail = "head" => ret.stdout = <<>> /\ ret.returncode = 0
                        /\ call.tail = "wc" => ret.stdout = <<0>> /\ ret.returncode = 0

\* A pipeline whose first executable does not exist, reported as a success
\* with output.
C6_Witness ==
    \E i \in DOMAIN calls :
        /\ calls[i].op = "run_command" /\ calls[i].cause = "missing" /\ calls[i].shell
        /\ calls[i].tail = "wc"
        /\ calls[i].ret.returncode = 0 /\ calls[i].ret.stderr = ""

\* A command_exists check of the tool that answered True before call i.
CheckedBefore(tool, i) ==
    \E j \in 1..(i - 1) :
        calls[j].op = "command_exists" /\ calls[j].arg = tool /\ calls[j].ret

\* C7 (as claimed): every tool a probe runs through run_command, pgrep,
\* ping, ls, sudo and the filters of its pipelines included, was checked
\* with command_exists before, and the check answered True.
C7_CheckedBeforeUse ==
    \A i \in DOMAIN calls :
        calls[i].op = "run_command" => \A tool \in calls[i].tools : CheckedBefore(tool, i)

\* The tools the probes check.
CheckedTools ==
    {"dmidecode", "lspci", "glxinfo", "vulkaninfo", "aplay", "pactl", "pw-cli", "ip",
     "lsblk", "df", "smartctl", "lsusb", "sensors"}

\* C7 (amended): a command that runs one of dmidecode, lspci, glxinfo,
\* vulkaninfo, aplay, pactl, pw-cli, ip, lsblk, df, smartctl, lsusb and
\* sensors comes after a command_exists check of that tool that answered
\* True; no other tool is ever checked, so pgrep, ping, ls, sudo, grep,
\* head and wc run unchecked.
C7_CheckedTools ==
    \A i \in DOMAIN calls :
        /\ calls[i].op = "run_command" =>
              \A tool \in calls[i].tools :
                  IF tool \in CheckedTools THEN CheckedBefore(tool, i)
                  ELSE ~\E j \in DOMAIN calls :
                           calls[j].op = "command_exists" /\ calls[j].arg = tool
        /\ calls[i].op = "command_exists" => calls[i].arg \in CheckedTools

\* pgrep was run unchecked and did not exist, after lspci was run checked.
C7_Witness ==
    \E i \in DOMAIN calls :
        /\ calls[i].op = "run_command" /\ calls[i].first = "pgrep"
        /\ calls[i].cause = "missing"
        /\ \E j \in 1..(i - 1) :
              /\ calls[j].op = "run_command" /\ calls[j].first = "lspci"
              /\ CheckedBefore("lspci", j)

\* The section names, in the order of the report.
SectionOrder ==
    <<"system", "hardware", "cpu", "memory", "graphics", "audio", "network", "storage",
      "usb", "power", "temperature">>

\* The section name of a probe.
SectionOf(probe) ==
    SectionOrder[CHOOSE i \in DOMAIN ProbeOrder : ProbeOrder[i] = probe]

\* C8: at every point of a run, self.data has the section of every probe
\* that has returned, even an empty one, and after a normal run its keys
\* are exactly the eleven section names.
C8_SectionPresence ==
    /\ \A i \in DOMAIN returned : Has(data, SectionOf(returned[i]))
    /\ (pc = "exit" /\ exit_code = 0) =>
          /\ Keys(data) = {SectionOrder[i] : i \in DOMAIN SectionOrder}
          /\ Len(data) = Len(SectionOrder)

\* get_usb_info has returned with no field at all, and its section is there.
C8_Witness ==
    /\ \E i \in DOMAIN returned : returned[i] = "get_usb_info"
    /\ Has(data, "usb")
    /\ Len(Get(data, "usb")) = 0

\* C9: every step either leaves the report as it is or appends exactly one
\* section, the next of the fixed order: no section is added twice, and
\* none is replaced or removed.
C9_AggregationOrder ==
    [][\/ data' = data
       \/ /\ Len(data') = Len(data) + 1
          /\ SubSeq(data', 1, Len(data)) = data
          /\ Len(data') <= Len(SectionOrder)
          /\ data'[Len(data')].k = SectionOrder[Len(data')]]_vars

\* All eleven sections are in the report, in the fixed order.
C9_Witness ==
    /\ Len(data) = Len(SectionOrder)
    /\ \A i \in DOMAIN data : data[i].k = SectionOrder[i]
    /\ pc = "exit"

\* The sections whose fields are all texts.
TextSections == {"system", "hardware", "graphics"}

\* C10 (as claimed): no field of a stored section holds a placeholder such
\* as 'Unknown' or 'Not available'; a field whose source cannot be read or
\* parsed is absent.
C10_NoSentinelValues ==
    \A i \in DOMAIN data :
        data[i].k \in TextSections =>
            \A j \in DOMAIN data[i].v : data[i].v[j].v \notin {"Unknown", "Not available"}

\* The field of a stored section is there and holds the text.
FieldIs(section, key, text) ==
    Has(data, section) =>
        /\ Has(Get(data, section), key)
        /\ Get(Get(data, section), key) = text

\* C10 (amended): a stored section keeps these fields with a placeholder
\* when their source cannot be read or parsed: each DMI field whose file is
\* unreadable, empty, 'To be filled by O.E.M.' or 'Not Specified' is
\* 'Unknown'; chassis_type is 'Unknown' when its file is unreadable or its
\* code is not in the map; boot_time is 'Unknown' when /proc/uptime cannot
\* be read; graphics_drivers is 'Unknown' when no kernel module directory
\* exists; vulkan_support is 'Not available' when vulkaninfo ran and
\* failed or printed nothing.
C10_Placeholders ==
    \A c \in DOMAIN calls :
        LET call == calls[c]
        IN  /\ call.op = "safe_read_file" =>
                  /\ \A i \in DOMAIN dmi_files :
                        (call.arg = dmi_files[i].v
                         /\ (~Truthy(call.ret)
                             \/ call.ret \in {"To be filled by O.E.M.", "Not Specified"})) =>
                            FieldIs("hardware", dmi_files[i].k, "Unknown")
                  /\ (call.arg = "/sys/class/dmi/id/chassis_type"
                      /\ (~Truthy(call.ret) \/ chassis_keys(call.ret) = {})) =>
                        FieldIs("hardware", "chassis_type", "Unknown")
            /\ (call.op = "open" /\ call.arg = "/proc/uptime" /\ call.cause # "ok") =>
                  FieldIs("system", "boot_time", "Unknown")
            /\ (call.op = "exists" /\ call.arg = "/sys/module/radeon"
                /\ \A d \in (c - 4)..c : ~calls[d].ret) =>
                  FieldIs("graphics", "graphics_drivers", "Unknown")
            /\ (call.op = "run_command" /\ call.first = "vulkaninfo"
                /\ call.cause # "KeyboardInterrupt"
                /\ ~(call.ret.returncode = 0 /\ Len(call.ret.stdout) > 0)) =>
                  FieldIs("graphics", "vulkan_support", "Not available")

\* The hardware section is stored with 'Unknown' for a DMI file that could
\* not be read.
C10_Witness ==
    /\ Has(data, "hardware")
    /\ \E c \in DOMAIN calls, i \in DOMAIN dmi_files :
          /\ calls[c].op = "safe_read_file" /\ calls[c].arg = dmi_files[i].v
          /\ calls[c].cause = "IOError"
          /\ Get(Get(data, "hardware"), dmi_files[i].k) = "Unknown"

\* The section a line of stdout belongs to: that of the last section header
\* written before it (the headers come in the order of the report).
LineSection(i) ==
    SectionOrder[Cardinality({j \in 1..i : stdout[j].kind = "section"})]

\* The label under which the console shows a stored field.
ConsoleLabel(section, key) ==
    IF section = "usb" /\ key = "devices" THEN "USB Devices" ELSE Label(key)

\* The entry names and the values, as texts, of a dict of dicts.
NestedTexts(d) ==
    {d[i].k : i \in DOMAIN d}
    \cup UNION {{Str(d[i].v[j].v) : j \in DOMAIN d[i].v} : i \in DOMAIN d}

\* What the JSON document holds under a section that shows a table, as
\* texts: the names and the values of its fields, to any depth.
JsonTexts(section) ==
    LET d == Get(data, section)
    IN  IF section = "storage"
        THEN NestedTexts(Get(d, "block_devices")) \cup NestedTexts(Get(d, "filesystems"))
             \cup {Get(d, "disk_health")[i].k : i \in DOMAIN Get(d, "disk_health")}
             \cup {Get(d, "disk_health")[i].v : i \in DOMAIN Get(d, "disk_health")}
        ELSE {d[i].k : i \in DOMAIN d}
             \cup {CASE d[i].k \in {"device_count", "thermal_zones_count"} -> ToText(d[i].v)
                     [] d[i].k = "sensors_available" -> "True"
                     [] OTHER -> d[i].v : i \in DOMAIN d}

\* Whatever the console has shown for the section stored last is in the
\* report under that section: each scalar line is a field of the section
\* with that value, and each cell of each table row is the name or a value
\* of an entry of the section.
ShownIsStored ==
    LET section == SectionOf(returned[Len(returned)])
        d == Get(data, section)
    IN  \A i \in DOMAIN stdout :
            (stdout[i].kind \in {"info", "row"} /\ LineSection(i) = section) =>
                IF stdout[i].kind = "info"
                THEN \E f \in DOMAIN d :
                        /\ ConsoleLabel(section, d[f].k) = stdout[i].label
                        /\ d[f].v = stdout[i].value
                ELSE \A c \in DOMAIN stdout[i].cells :
                        stdout[i].cells[c] \in JsonTexts(section)

\* C11 (as claimed): every datum the console projection shows for a section
\* is in the data the JSON projection is made of, under the same section:
\* it holds of each section when its probe has just returned, its lines all
\* written.
C11_RoundTrip ==
    (returned # <<>> /\ pc = NextProbe(returned[Len(returned)])) => ShownIsStored

\* The JSON documents written so far.
Documents == SelectSeq(stdout, LAMBDA line : line.kind = "json")

\* C12 (as claimed): the JSON projection is one document whose top-level
\* keys are exactly system_info, generated_at and schema_version, and
\* system_info maps each section name to its field map.
C12_TopLevelKeys ==
    /\ Len(Documents) <= 1
    /\ \A i \in DOMAIN Documents :
          /\ Keys(Documents[i].doc) = {"system_info", "generated_at", "schema_version"}
          /\ Get(Documents[i].doc, "system_info") = data

\* C12 (amended): the JSON projection is one document whose top-level keys
\* are, in this order, system_info, generated_at, script_version and
\* script_language; system_info is the report, which maps each of the
\* eleven section names to its field map; script_version is '5.0' and
\* script_language is 'Python'.
C12_Document ==
    /\ Len(Documents) <= 1
    /\ \A i \in DOMAIN Documents :
          LET doc == Documents[i].doc
          IN  /\ [j \in DOMAIN doc |-> doc[j].k]
                    = <<"system_info", "generated_at", "script_version", "script_language">>
              /\ doc[1].v = data
              /\ [j \in DOMAIN doc[1].v |-> doc[1].v[j].k] = SectionOrder
              /\ doc[3].v = "5.0"
              /\ doc[4].v = "Python"

\* A JSON run has ended with its document written.
C12_Witness ==
    /\ output_json /\ pc = "exit" /\ exit_code = 0
    /\ Len(Documents) = 1
    /\ Len(Documents[1].doc[1].v) = Len(SectionOrder)

\* C13 (as claimed): the documents that generate_json_output writes for one
\* unchanged report, at different clock readings, are identical.
C13_RenderIdempotent ==
    \A i, j \in DOMAIN Documents : Documents[i] = Documents[j]

\* C13 (amended): the documents written for one unchanged report have the
\* same keys in the same order and the same value under every key but
\* generated_at, which holds the reading of the clock at each rendering.
C13_SameButTimestamp ==
    \A i, j \in DOMAIN Documents :
        LET a == Documents[i].doc
            b == Documents[j].doc
        IN  /\ Len(a) = Len(b)
            /\ \A n \in DOMAIN a :
                  /\ a[n].k = b[n].k
                  /\ a[n].k # "generated_at" => a[n].v = b[n].v
            /\ \E m \in Clock : Get(a, "generated_at") = isoformat(m)
            /\ Get(a, "system_info") = data

\* One report with a section was rendered twice, and the two documents
\* carry different timestamps.
C13_Witness ==
    /\ Len(Documents) = 2
    /\ Len(data) > 0
    /\ Get(Documents[1].doc, "generated_at") # Get(Documents[2].doc, "generated_at")

\* C14: a second run with --json, on a host that answers as it answered
\* the console run, makes the same external calls in the same order and
\* gathers the same report: at every point its calls and its sections are
\* the first of those of the console run, and at its exit they are all of
\* them, with the same probes returned and the same outcome.
C14_ProjectionIndependence ==
    Again =>
        /\ Len(calls) - 1 <= Len(FirstRun.calls)
        /\ \A i \in 1..(Len(calls) - 1) : calls[i + 1] = FirstRun.calls[i]
        /\ Len(data) <= Len(FirstRun.data)
        /\ data = SubSeq(FirstRun.data, 1, Len(data))
        /\ pc = "exit" =>
              /\ Len(calls) - 1 = Len(FirstRun.calls)
              /\ data = FirstRun.data
              /\ returned = FirstRun.returned
              /\ (exit_code = 0) <=> (FirstRun.exit_code = 0)

\* Both runs have gone through all eleven probes, a source having departed
\* from the reference host, and the JSON run has written its document.
C14_Witness ==
    /\ Again /\ pc = "exit" /\ output_json
    /\ Len(data) = Len(SectionOrder)
    /\ deviations > 0
    /\ Len(Documents) = 1

\* The lines of an output that render report content: fields, tables, the
\* JSON document.
Rendered(out) ==
    SelectSeq(out, LAMBDA line : line.kind \in {"info", "title", "header", "row", "json"})

\* Nothing of the run moves: no probe returns, no external call is made,
\* the report is not modified.
ReportAtRest == data' = data /\ calls' = calls /\ returned' = returned

\* C15 (as claimed): the report starts empty, and from the moment any
\* report content has been rendered no probe runs, no executor call is
\* made and self.data is not modified.
C15_RenderAfterPass ==
    /\ data = EmptyDict
    /\ [][Len(Rendered(stdout)) > 0 => ReportAtRest]_vars

\* C15 (amended): the report starts empty and is filled by one pass of the
\* eleven probes in their order, a step that changes it adding the section
\* of the probe that returns; in JSON mode no content is written before the
\* pass is over, and the document is the one thing written; in console
\* mode a probe renders its section's content in the step that stores the
\* section, so probes run and the report grows after content was rendered;
\* in both modes nothing moves once the footer or the document is written.
C15_Lifecycle ==
    /\ data = EmptyDict
    /\ [][/\ (data' # data \/ returned' # returned) =>
                /\ Len(returned) < Len(ProbeOrder)
                /\ returned' = Append(returned, ProbeOrder[Len(returned) + 1])
                /\ data' = Append(data, [k |-> SectionOrder[Len(returned) + 1],
                                         v |-> data'[Len(data')].v])
          /\ (output_json /\ Rendered(stdout') # Rendered(stdout)) =>
                /\ stdout = <<>> /\ Len(stdout') = 1 /\ stdout'[1].kind = "json"
                /\ Len(returned) = Len(ProbeOrder)
                /\ ReportAtRest
          /\ (~output_json /\ Len(Rendered(stdout')) > Len(Rendered(stdout))) =>
                Len(data') = Len(data) + 1
          /\ (\E i \in DOMAIN stdout : stdout[i].kind \in {"json", "footer"}) =>
                (ReportAtRest /\ stdout' = stdout)
       ]_vars

\* A console run has rendered the content of a section and a later probe
\* is at work.
C15_Witness ==
    /\ ~output_json
    /\ Len(Rendered(stdout)) > 0
    /\ Len(data) > 0 /\ Len(data) < Len(SectionOrder)
    /\ pc = "get_linux_cpu_info"

\* The width the claim gives column i of a table.
ClaimedWidth(headers, rows, i) ==
    LET longest == Max({Len(headers[i])} \cup {Len(rows[r][i]) : r \in DOMAIN rows})
    IN  IF longest + 2 < 30 THEN longest + 2 ELSE 30

\* Where column i starts in a line: after the indent and the columns
\* before it.
RECURSIVE ClaimedStart(_, _, _)
ClaimedStart(headers, rows, i) ==
    IF i = 1 THEN 2
    ELSE ClaimedStart(headers, rows, i - 1) + ClaimedWidth(headers, rows, i - 1)

\* C16: print_table, given rows, writes the title, the header line, the
\* separator and one line per row; column i of every line is
\* min(max(header length, longest cell of the column) + 2, 30) characters
\* wide, so no cell takes more than 30; a cell of at most width - 2
\* characters is written as it is, a longer one as its first width - 5
\* characters and '...', width - 2 characters in all; each is padded with
\* spaces to the width.
C16_TableLayout ==
    (pc = "return" /\ ~output_json /\ Len(aux.rows) > 0) =>
        LET headers == aux.headers
            rows == aux.rows
            width(i) == ClaimedWidth(headers, rows, i)
            from(i) == ClaimedStart(headers, rows, i)
            total == from(Len(headers)) + width(Len(headers))
        IN  /\ Len(stdout) = 3 + Len(rows)
            /\ stdout[3].text = "  " \o Repeat("-", total - 2)
            /\ \A i \in DOMAIN headers :
                  /\ width(i) <= 30
                  /\ SubSeq(stdout[2].text, from(i) + 1, from(i) + width(i))
                        = Padded(headers[i], width(i))
                  /\ \A r \in DOMAIN rows :
                        LET cell == rows[r][i]
                            shown == SubSeq(stdout[3 + r].text, from(i) + 1, from(i) + width(i))
                        IN  /\ Len(stdout[3 + r].text) = total
                            /\ Len(shown) = width(i)
                            /\ Len(cell) <= width(i) - 2 => shown = Padded(cell, width(i))
                            /\ Len(cell) > width(i) - 2 =>
                                  /\ SubSeq(shown, 1, width(i) - 5)
                                        = SubSeq(cell, 1, width(i) - 5)
                                  /\ SubSeq(shown, width(i) - 4, width(i)) = "...  "

\* A table was printed with a cell of 40 characters cut to 28 in a column
\* of 30, beside a column that a 15-character cell makes 17 wide.
C16_Witness ==
    /\ pc = "return" /\ ~output_json
    /\ Len(aux.rows) = 2 /\ Len(stdout) = 5
    /\ Len(aux.rows[1][1]) = 40 /\ Len(aux.rows[2][2]) = 15 /\ Len(aux.rows[1][2]) = 0
    /\ SubSeq(stdout[4].text, 3, 32) = Repeat("x", 25) \o "...  "
    /\ Len(stdout[3].text) = 2 + 30 + 17

\* The lines that show section n of the report: its header and what
\* follows it up to the next header.
SectionLines(n) ==
    {i \in DOMAIN stdout :
        /\ SectionContent(stdout[i])
        /\ Cardinality({j \in 1..i : stdout[j].kind = "section"}) = n}

\* The stored section has no field, or none but empty tables.
NoFields(section) ==
    \/ Get(data, section) = EmptyDict
    \/ /\ section = "storage"
       /\ \A f \in DOMAIN Get(data, section) : Len(Get(data, section)[f].v) = 0

\* C17 (as claimed): in console mode a section stored with no field, of
\* which no table row is shown, is rendered as its header and exactly one
\* 'No data available' line.
C17_NoDataLine ==
    ~output_json =>
        \A n \in DOMAIN returned :
            (/\ NoFields(SectionOrder[n])
             /\ \A i \in SectionLines(n) :
                   stdout[i].kind = "row" => stdout[i].cells = <<>>) =>
                /\ Cardinality(SectionLines(n)) = 2
                /\ \E i \in SectionLines(n) :
                      stdout[i].kind = "row" /\ stdout[i].text = "  No data available"

\* units / 10^digits is n / d rounded to that many decimals: one of the two
\* neighbours of n * 10^digits / d, and the nearer one when they differ.
Nearest(units, n, d, digits) ==
    LET p == Scaled(n, d, digits)
    IN  \/ units = p[1] /\ 2 * p[2] <= d
        \/ units = p[1] + 1 /\ 2 * p[2] >= d

MemLine(key) == (CHOOSE i \in DOMAIN aux : aux[i][1] = key)

HasMemLine(key) == \E i \in DOMAIN aux : aux[i][1] = key

InGB(key, kb) ==
    /\ Has(info, key)
    /\ Get(info, key).decimals = 2
    /\ Nearest(Get(info, key).units, kb, 1048576, 2)

\* C18: for MemTotal = T > 0 and MemAvailable = A with 0 <= A <= T,
\* get_linux_memory_info yields total_ram_gb, available_ram_gb and
\* used_ram_gb equal to T, A and T - A over 1024^2 rounded to two decimals,
\* usage_percent equal to (T - A) / T * 100 rounded to one decimal and within
\* [0, 100], and, with SwapTotal and SwapFree present, used_swap_gb equal to
\* their difference in GB; T = 16000000 and A = 8000000 give 15.26, 7.63,
\* 7.63 and 50.0.
C18_MemoryArithmetic ==
    pc = "return" =>
        LET T == aux[MemLine("MemTotal")][2]
            A == aux[MemLine("MemAvailable")][2]
        IN  /\ InGB("total_ram_gb", T)
            /\ InGB("available_ram_gb", A)
            /\ InGB("used_ram_gb", T - A)
            /\ Has(info, "usage_percent")
            /\ Get(info, "usage_percent").decimals = 1
            /\ Nearest(Get(info, "usage_percent").units, T - A, T, 3)
            /\ Get(info, "usage_percent").units \in 0..1000
            /\ (HasMemLine("SwapTotal") /\ HasMemLine("SwapFree")) =>
                   InGB("used_swap_gb",
                        aux[MemLine("SwapTotal")][2] - aux[MemLine("SwapFree")][2])
            /\ (T = 16000000 /\ A = 8000000) =>
                   /\ Get(info, "total_ram_gb") = Float(1526, 2)
                   /\ Get(info, "available_ram_gb") = Float(763, 2)
                   /\ Get(info, "used_ram_gb") = Float(763, 2)
                   /\ Get(info, "usage_percent") = Float(500, 1)

C18_Witness ==
    /\ pc = "return"
    /\ aux[MemLine("MemTotal")][2] = 16000000
    /\ aux[MemLine("MemAvailable")][2] = 8000000
    /\ HasMemLine("SwapFree")
    /\ Get(info, "total_ram_gb") = Float(1526, 2)
    /\ Get(info, "usage_percent") = Float(500, 1)
    /\ Has(info, "used_swap_gb")

\* What the glob of the power-supply directory for a pattern returned in this
\* run; nothing when the directory does not exist and no glob was made.
Matched(pattern) ==
    LET g == {i \in DOMAIN calls :
                 calls[i].op = "glob" /\ calls[i].arg = supply \o "/" \o pattern}
    IN  IF g = {} THEN <<>> ELSE calls[CHOOSE i \in g : TRUE].ret

PowerStored == returned # <<>> /\ returned[Len(returned)] = "get_power_info"

no_battery == [k |-> "battery_status", v |-> "No battery detected (Desktop system)"]

\* C20 as stated: when nothing matches the battery pattern, the stored power
\* section has exactly one field, battery_status = 'No battery detected
\* (Desktop system)', whatever AC-adapter entries exist.
C20_OnlyBatteryStatus ==
    (PowerStored /\ Matched("BAT*") = <<>>) =>
        Get(data, "power") = <<no_battery>>

\* C20 amended: when nothing matches the battery pattern, the stored power
\* section starts with battery_status = 'No battery detected (Desktop
\* system)'; every further field is the Connected / Disconnected status of
\* an AC-adapter entry, at most one per entry, so the section has exactly
\* one field when no AC-adapter entry exists.
C20_NoBattery ==
    (PowerStored /\ Matched("BAT*") = <<>>) =>
        LET power == Get(data, "power")
        IN  /\ Len(power) >= 1
            /\ power[1] = no_battery
            /\ Len(power) <= 1 + Len(Matched("A[CD]*"))
            /\ \A i \in 2..Len(power) :
                  /\ power[i].v \in {"Connected", "Disconnected"}
                  /\ \E a \in DOMAIN Matched("A[CD]*") :
                        power[i].k = lower(Matched("A[CD]*")[a]) \o "_status"

C20_Witness ==
    /\ PowerStored
    /\ Matched("BAT*") = <<>>
    /\ Matched("A[CD]*") = <<"AC">>
    /\ Get(data, "power") = <<no_battery, [k |-> "ac_status", v |-> "Connected"]>>

\* The inputs the conversions cannot use: None, a text that is not a number
\* (the empty text included) and a float that is not finite.
Invalid(x) ==
    \/ x.type = "NoneType"
    \/ x.type = "str" /\ ~IsInt(x.text)
    \/ x.type = "float" /\ x.class # "finite"

Natural(x) == x.type = "int" /\ x.value >= 0

\* units / 100 is bytes / 1024^3 rounded to two decimals.
NearestGB(units, bytes) ==
    \/ units = Scaled30(bytes)[1] /\ Scaled30(bytes)[2] <= 536870912
    \/ units = Scaled30(bytes)[1] + 1 /\ Scaled30(bytes)[2] >= 536870912

\* C19: on non-negative ints kb_to_gb and bytes_to_gb are monotone, their
\* results are >= 0 and are the multiples of 0.01 nearest to x / 1024^2
\* (resp. x / 1024^3); on every invalid input (None, non-numeric text, empty
\* text, a non-finite number) both return 0.0 and never raise.
C19_Conversions ==
    /\ \A i \in DOMAIN info :
          Natural(aux.args[i]) =>
              /\ info[i].decimals = 2
              /\ info[i].units >= 0
              /\ IF aux.f = "kb_to_gb"
                 THEN Nearest(info[i].units, aux.args[i].value, 1048576, 2)
                 ELSE NearestGB(info[i].units, aux.args[i].value)
    /\ (Len(info) = 2 /\ Natural(aux.args[1]) /\ Natural(aux.args[2])) =>
          info[1].units <= info[2].units
    /\ \A i \in DOMAIN info : Invalid(aux.args[i]) => info[i] = Float(0, 2)
    /\ (Len(info) < 2 /\ Invalid(aux.args[Len(info) + 1])) => raised = ""

\* C21: whatever tools command_exists reports absent, every probe still
\* stores its section (usb an empty one when lsusb is absent), all eleven
\* probes run, nothing is raised, and the run ends with exit code 0.
C21_GracefulDegradation ==
    /\ raised = ""
    /\ pc \notin {"except_Exception", "except_KeyboardInterrupt", "blocked"}
    /\ \A n \in DOMAIN returned :
          /\ returned[n] = ProbeOrder[n]
          /\ Has(data, SectionOrder[n])
    /\ ("lsusb" \in AbsentTools /\ Has(data, "usb")) => Get(data, "usb") = EmptyDict
    /\ pc = "exit" => (exit_code = 0 /\ returned = ProbeOrder)

C21_Witness ==
    /\ pc = "exit"
    /\ exit_code = 0
    /\ "lsusb" \in AbsentTools
    /\ Cardinality(AbsentLookups) >= 2
    /\ Get(data, "usb") = EmptyDict
    /\ Len(data) = 11

\* The external source a call queries: the tool for a lookup and for a
\* command (its first executable), the path for a file or directory.
SourceOf(call) ==
    IF call.op = "run_command" THEN call.first ELSE call.arg

Queries == {i \in DOMAIN calls : calls[i].op # "SIGINT"}

Ended == pc \in {"exit", "blocked"}

\* C22 as stated: within one run each external source (a file path, a tool,
\* a tool's availability lookup) is queried at most once, and a command that
\* failed or timed out is never issued again.
C22_QueriedOnce ==
    Ended =>
        \A i \in Queries : \A j \in Queries :
            (i < j /\ calls[i].op = calls[j].op) => SourceOf(calls[i]) # SourceOf(calls[j])

Same(i, j) == calls[i].op = calls[j].op /\ calls[i].arg = calls[j].arg

\* How many times one run may make the same query: each of the three
\* hardware helpers that use lspci looks it up, and the battery and the
\* adapter helper each test the power-supply directory.
Repeats(call) ==
    CASE call.op = "command_exists" /\ call.arg = "lspci" -> 3
      [] call.op = "exists" /\ call.arg = supply -> 2
      [] OTHER -> 1

\* C22 amended: no command line is run twice and no file is read twice in
\* one run, so nothing is retried after a failure or a timeout; a lookup or
\* a directory test is repeated only by another helper that needs the same
\* tool or directory, up to Repeats times.
C22_NoRetry ==
    Ended =>
        \A i \in Queries :
            Cardinality({j \in Queries : Same(i, j)}) <= Repeats(calls[i])

C22_Witness ==
    /\ pc = "exit"
    /\ \E i \in Queries :
          /\ calls[i].op = "run_command"
          /\ calls[i].cause \in {"fail", "hang"}
          /\ \E j \in Queries : j > i /\ calls[j].op = "run_command"
    /\ Cardinality({j \in Queries : calls[j].op = "command_exists"
                                     /\ calls[j].arg = "lspci"}) = 3

\* C23: no parser indexes past what its split produced, whatever the text:
\* get_cpu_usage with fewer than three fields in /proc/loadavg and
\* get_disk_health with a 'SMART overall-health' line without a colon raise
\* nothing, so no IndexError ever leaves a parser.
C23_DefensiveParsing == raised # "IndexError"

\* The run has just read a /proc/meminfo that reports MemTotal as 0 kB
\* beside a MemAvailable line.
ZeroTotalRead ==
    /\ calls # <<>>
    /\ calls[Len(calls)].op = "open"
    /\ calls[Len(calls)].arg = "/proc/meminfo"
    /\ calls[Len(calls)].cause = "ok"
    /\ \E i \in DOMAIN calls[Len(calls)].ret :
          calls[Len(calls)].ret[i] = <<"MemTotal", 0>>
    /\ \E i \in DOMAIN calls[Len(calls)].ret :
          calls[Len(calls)].ret[i][1] = "MemAvailable"

\* C24: when /proc/meminfo reports MemTotal as 0 kB with MemAvailable
\* present, get_linux_memory_info raises nothing, omits usage_percent and
\* still returns the other fields it could compute.
C24_FieldIsolation ==
    ZeroTotalRead =>
        /\ raised = ""
        /\ pc = "get_memory_hardware_info"
        /\ ~Has(info, "usage_percent")
        /\ Has(info, "total_ram_gb")
        /\ Has(info, "available_ram_gb")

GatedFields ==
    {"opengl_vendor", "opengl_renderer", "opengl_version", "vulkan_version",
     "vulkan_support", "internet_connectivity"}

\* The calls of this run: the log without the record of an earlier run.
ThisRun == IF Again THEN Tail(calls) ELSE calls

Ungatedfields(d) == SelectSeq(d, LAMBDA e : e.k \notin GatedFields)

\* C25: with brief set no glxinfo, vulkaninfo or ping call is made and the
\* six gated fields are absent from the report; with brief unset a stored
\* network section was preceded by a ping and has internet_connectivity =
\* 'Connected' or 'No connectivity'; and a run with --brief on the host of a
\* run without it makes that run's other calls in the same order and
\* collects the same data but for the gated fields.
C25_BriefGating ==
    /\ brief =>
          /\ \A i \in DOMAIN ThisRun : ~Gated(ThisRun[i])
          /\ \A n \in DOMAIN data : \A f \in DOMAIN data[n].v :
                data[n].v[f].k \notin GatedFields
    /\ (~brief /\ Has(data, "network")) =>
          /\ \E i \in DOMAIN ThisRun :
                ThisRun[i].op = "run_command" /\ ThisRun[i].first = "ping"
          /\ Has(Get(data, "network"), "internet_connectivity")
          /\ Get(Get(data, "network"), "internet_connectivity")
                \in {"Connected", "No connectivity"}
    /\ Again =>
          /\ Len(ThisRun) <= Len(FirstRun.ungated)
          /\ ThisRun = SubSeq(FirstRun.ungated, 1, Len(ThisRun))
          /\ \A n \in DOMAIN data :
                /\ data[n].k = FirstRun.data[n].k
                /\ data[n].v = Ungatedfields(FirstRun.data[n].v)
          /\ pc = "exit" => (exit_code = 0 /\ Len(data) = Len(FirstRun.data))

\* Both runs have ended; the first one ran glxinfo, vulkaninfo and ping and
\* reported what they said.
C25_Witness ==
    /\ Again /\ pc = "exit" /\ brief
    /\ Len(data) = Len(SectionOrder)
    /\ Has(Get(FirstRun.data, "graphics"), "opengl_vendor")
    /\ Has(Get(FirstRun.data, "graphics"), "vulkan_version")
    /\ Get(Get(FirstRun.data, "network"), "internet_connectivity") = "Connected"
    /\ \E i \in DOMAIN FirstRun.calls : Gated(FirstRun.calls[i])

\* The smartctl health calls of the run, in the order made.
SmartCalls ==
    SelectSeq(calls, LAMBDA call : call.op = "run_command" /\ "smartctl" \in call.tools)

\* The device paths the listing of a pattern printed in this run.
Listed(device_path) ==
    LET made == SelectSeq(calls, LAMBDA call : /\ call.op = "run_command"
                                              /\ call.arg = ls_cmd(device_path).text)
    IN  IF Len(made) > 0 /\ made[1].ret.returncode = 0 THEN made[1].ret.stdout ELSE <<>>

Discovered == Listed("/dev/sd?") \o Listed("/dev/nvme?n1")

\* C26: a smartctl health call is made only with verbose set, at most 5 per
\* run, the k-th on the k-th device path in discovery order (/dev/sd?
\* matches before /dev/nvme?n1 matches); with verbose unset the stored
\* storage.disk_health is the empty mapping.
C26_SmartGating ==
    /\ Len(SmartCalls) > 0 => verbose
    /\ Len(SmartCalls) <= 5
    /\ Len(SmartCalls) <= Len(Discovered)
    /\ \A k \in DOMAIN SmartCalls : SmartCalls[k].arg = smartctl_cmd(Discovered[k]).text
    /\ (~verbose /\ Has(data, "storage")) =>
          Get(Get(data, "storage"), "disk_health") = EmptyDict

\* A verbose run on a host with six /dev/sd? disks has finished.
C26_Witness ==
    /\ pc = "exit"
    /\ verbose
    /\ Len(Discovered) = 6
    /\ Len(SmartCalls) = 5
    /\ SmartCalls[5].arg = smartctl_cmd("/dev/sde").text
    /\ Len(Get(Get(data, "storage"), "disk_health")) = 5

Set(name) == Get(environ, name) \notin {None, ""}

\* The classification the three variables call for.
Classified ==
    IF Set("WAYLAND_DISPLAY") \/ Get(environ, "XDG_SESSION_TYPE") = "wayland"
    THEN "Wayland"
    ELSE IF Set("DISPLAY") THEN "X11"
    ELSE "Console/TTY"

\* The process scans of the run, in the order made.
Scans == SelectSeq(calls, LAMBDA call : call.op = "run_command" /\ call.first = "pgrep")

\* The scans went down the candidate list, stopped at the first that
\* succeeded, and `name` is that candidate or else the generic label.
FirstMatch(candidates, name, unknown) ==
    /\ Len(Scans) \in 1..Len(candidates)
    /\ \A k \in DOMAIN Scans :
          /\ Scans[k].arg = pgrep_cmd(candidates[k]).text
          /\ k < Len(Scans) => Scans[k].ret.returncode # 0
    /\ IF Scans[Len(Scans)].ret.returncode = 0
       THEN name = candidates[Len(Scans)]
       ELSE Len(Scans) = Len(candidates) /\ name = unknown

\* C27: display_server is 'Wayland' if WAYLAND_DISPLAY is non-empty or
\* XDG_SESSION_TYPE is 'wayland' (even with DISPLAY set), else 'X11' if
\* DISPLAY is non-empty, else 'Console/TTY'; compositor appears only with
\* 'Wayland', window_manager only with 'X11', never both, and each is the
\* first name of its candidate list whose process scan succeeds or else the
\* generic 'Unknown ...' label.
C27_DisplayServer ==
    environ # EmptyDict =>
        /\ Get(info, "display_server") = Classified
        /\ Has(info, "compositor") => Classified = "Wayland"
        /\ Has(info, "window_manager") => Classified = "X11"
        /\ ~(Has(info, "compositor") /\ Has(info, "window_manager"))
        /\ Classified = "Console/TTY" => Len(Scans) = 0
        /\ pc = "get_graphics_drivers" =>
              /\ Classified = "Wayland" =>
                    /\ Has(info, "compositor")
                    /\ FirstMatch(compositors, Get(info, "compositor"),
                                  "Unknown Wayland Compositor")
              /\ Classified = "X11" =>
                    /\ Has(info, "window_manager")
                    /\ FirstMatch(wms, Get(info, "window_manager"), "Unknown WM")

\* A session with both WAYLAND_DISPLAY and DISPLAY set, running hyprland.
C27_Witness ==
    /\ pc = "get_graphics_drivers"
    /\ environ # EmptyDict
    /\ Set("WAYLAND_DISPLAY") /\ Set("DISPLAY")
    /\ Get(info, "display_server") = "Wayland"
    /\ Get(info, "compositor") = "hyprland"
    /\ Len(Scans) = 7

\* The attribute files of the k-th battery listed that read non-empty, as
\* the field names they are stored under.
FieldsRead(k) ==
    {Get(battery_keys, battery_attributes[a]) : a \in
        {a \in DOMAIN battery_attributes :
            \E i \in DOMAIN calls :
                /\ calls[i].op = "safe_read_file"
                /\ calls[i].arg = supply \o "/" \o aux[k] \o "/" \o battery_attributes[a]
                /\ calls[i].ret \notin {None, ""}}}

\* The prefix the claim gives the k-th battery listed.
ClaimedPrefix(k) ==
    IF k = 1 THEN lower(aux[k]) \o "_"
    ELSE lower(aux[k]) \o "_" \o ToText(k) \o "_"

\* C28: the first battery's fields use the prefix '<name>_' and the k-th
\* one's '<name>_<k>_'; whatever the distinct names and their order, no two
\* batteries write the same field key, so every field read is kept, and
\* battery_status is present if and only if no battery was found.
C28_BatteryKeys ==
    pc = "return" =>
        /\ \A k \in DOMAIN aux : \A f \in FieldsRead(k) :
              Has(info, ClaimedPrefix(k) \o f)
        /\ \A k \in DOMAIN aux : \A j \in DOMAIN aux :
              k # j => \A f \in FieldsRead(k) : \A g \in FieldsRead(j) :
                          ClaimedPrefix(k) \o f # ClaimedPrefix(j) \o g
        /\ Has(info, "battery_status") <=> Len(aux) = 0

\* C29: in JSON mode no probe and no section, field or table helper writes
\* anything; stdout gets at most one JSON document, only after the eleventh
\* probe has returned, and a run that ends has written exactly one document
\* when it ends with status 0 and none when an interrupt or a failure ended
\* it.
C29_AtomicJson ==
    output_json =>
        /\ \A i \in DOMAIN stdout : stdout[i].kind \in {"json", "interrupted", "error"}
        /\ Len(Documents) <= 1
        /\ Len(Documents) = 1 => returned = ProbeOrder
        /\ returned # ProbeOrder => Len(stdout) = Len(SelectSeq(stdout,
                LAMBDA line : line.kind \in {"interrupted", "error"}))
        /\ pc = "exit" => (IF exit_code = 0 THEN Len(Documents) = 1
                           ELSE Len(Documents) = 0)

\* A JSON run that an interrupt or a failure ended after some probes had
\* stored their sections: nothing of the report was written.
C29_Witness ==
    /\ output_json
    /\ pc = "exit"
    /\ exit_code = 1
    /\ Len(data) >= 3
    /\ Len(Documents) = 0
    /\ Len(stdout) = 1

\* The lines `ip link show` printed in this run (none when it was not run
\* or printed nothing usable).
LinkListing ==
    LET made == SelectSeq(calls, LAMBDA call : /\ call.op = "run_command"
                                              /\ call.arg = ip_link_cmd.text)
    IN  IF Len(made) > 0 /\ Usable(made[1].ret) THEN made[1].ret.stdout ELSE <<>>

\* The lines of the entry whose header is line h of the listing: those after
\* it and before the next line that starts an entry.
OwnLines(lines, h) ==
    {j \in (h + 1)..Len(lines) : \A m \in (h + 1)..j : ~lines[m].number}

\* The header lines of the listing that name the interface.
HeadersOf(lines, name) ==
    {h \in DOMAIN lines : lines[h].number /\ lines[h].word = name /\ lines[h].after = ":"}

\* The positions in the log of the address queries for the interface.
AddrQueries(name) ==
    {i \in DOMAIN calls : calls[i].op = "run_command" /\ calls[i].arg = ip_addr_cmd(name).text}

\* C30: when get_network_interfaces has returned, every interface of its
\* result has a state among UP, DOWN and UNKNOWN, its mac_address (when it
\* has one) stands on a link/ether line of the interface's own entry of the
\* listing, and its address query was issued exactly once, after the link
\* listing.
C30_InterfaceAttribution ==
    pc = "get_network_hardware" =>
        \A i \in DOMAIN aux :
            LET name == aux[i].k
                lines == LinkListing
            IN  /\ Has(aux[i].v, "state")
                /\ Get(aux[i].v, "state") \in {"UP", "DOWN", "UNKNOWN"}
                /\ Has(aux[i].v, "mac_address") =>
                       \E h \in HeadersOf(lines, name) : \E j \in OwnLines(lines, h) :
                           /\ "link/ether" \in lines[j].has
                           /\ lines[j].ether = Get(aux[i].v, "mac_address")
                /\ Cardinality(AddrQueries(name)) = 1
                /\ \A q \in AddrQueries(name) : \E l \in 1..(q - 1) :
                       calls[l].op = "run_command" /\ calls[l].arg = ip_link_cmd.text

====
